---- MODULE Spec2Model ----
(***************************************************************************)
(* Message elements of the chat client and the layout container they       *)
(* render into (src/messages/MessageElement.cpp).                          *)
(*                                                                         *)
(* A QString is a sequence of one-character strings; "H" stands for a high *)
(* surrogate code unit, "L" for a low surrogate, " " for the space and "." *)
(* for the full stop.  "E" and "F" are emoji the tokenizer turns into emote *)
(* tokens.  Flag sets (FlagsEnum) are sets of flag names.                  *)
(***************************************************************************)
EXTENDS Integers, Sequences, FiniteSets, TLC

VARIABLES
    elem,         \* the element under test (its fields)
    cont0,        \* the layout container as it is handed to addToContainer
    container,    \* the layout container after the latest addToContainer
    lastFlags,    \* the render flags of the latest addToContainer
    settings,     \* the live settings and resources read while rendering
    probe,        \* what the latest addToContainer did, step by step
    prev,         \* the container after the addToContainer before the latest
    pc,           \* how many times addToContainer ran, capped
    copy,         \* the element clone() returned, NullElement before the call
    shared,       \* the fields of the clone that refer to the original's objects
    muts,         \* how many setter calls were made, capped
    ret,          \* what the latest query returned
    message,      \* a Message: its fields and the elements it owns
    published,    \* what the latest cloneWith returned, and from what
    call,         \* the addToContainer under way: its line and what it read
    chan,         \* a channel: its system messages and the requests sent for it
    logger        \* a LoggingChannel, its file and the clock it reads

vars == <<elem, cont0, container, lastFlags, settings, probe, prev, pc,
          copy, shared, muts, ret, message, published, call, chan, logger>>

\* the state outside the element under test
others == <<message, published, call, chan, logger>>

----------------------------------------------------------------------------
(* Bounds *)

MaxTextLen == 4
MaxLineWidth == 4
MaxRenders == 2
MaxSingleLen == 3
MaxMutations == 2
MaxLayers == 3
MaxActions == 2

----------------------------------------------------------------------------
(* Strings and font metrics *)

TextChars == {"a", "H", "L", " "}

\* well-formed UTF-16: a high surrogate is followed by a low one, a low
\* surrogate follows a high one
WellFormed(text) ==
    \A i \in 1..Len(text) :
        /\ text[i] = "H" => (i < Len(text) /\ text[i + 1] = "L")
        /\ text[i] = "L" => (i > 1 /\ text[i - 1] = "H")

Strings(alphabet, n) ==
    {text \in UNION {[1..k -> alphabet] : k \in 0..n} : WellFormed(text)}

\* QString::mid(position, n), position counted from 0
mid(text, position, n) ==
    SubSeq(text, position + 1, IF position + n > Len(text) THEN Len(text) ELSE position + n)

isHighSurrogate(ch) == ch = "H"

\* QString::split(' '): the pieces between the spaces, empty pieces kept
RECURSIVE splitFrom(_, _, _)
splitFrom(text, i, current) ==
    IF i > Len(text) THEN <<current>>
    ELSE IF text[i] = " " THEN <<current>> \o splitFrom(text, i + 1, <<>>)
    ELSE splitFrom(text, i + 1, Append(current, text[i]))

split(text) == splitFrom(text, 1, <<>>)

\* QFontMetrics::horizontalAdvance at a scale: a surrogate pair is one glyph
\* three units wide, every other code unit is one unit wide
RECURSIVE horizontalAdvance(_, _)
horizontalAdvance(text, scale) ==
    IF Len(text) = 0 THEN 0
    ELSE IF Len(text) >= 2 /\ text[1] = "H" /\ text[2] = "L"
         THEN 3 * scale + horizontalAdvance(SubSeq(text, 3, Len(text)), scale)
         ELSE scale + horizontalAdvance(Tail(text), scale)

----------------------------------------------------------------------------
(* Flags *)

hasAny(flags, other) == flags \cap other # {}

has(flags, flag) == flag \in flags

----------------------------------------------------------------------------
(* The layout container *)

Primitive(op, text, width, trailing, link, c, word) ==
    [op |-> op, text |-> text, width |-> width, height |-> 0, trailing |-> trailing,
     link |-> link, rem |-> c.width - c.currentX, word |-> word]

fitsInLine(c, width) == c.currentX + width <= c.width

remainingWidth(c) == c.width - c.currentX

atStartOfLine(c) == c.atStart

breakLine(c) ==
    [c EXCEPT !.currentX = 0, !.atStart = TRUE,
              !.log = Append(@, Primitive("break", <<>>, 0, FALSE, "None", c, 0))]

addElementNoLineBreak(c, e) ==
    [c EXCEPT !.currentX = @ + e.width + (IF e.trailing THEN c.spaceWidth ELSE 0),
              !.atStart = FALSE,
              !.log = Append(@, [e EXCEPT !.rem = c.width - c.currentX])]

addElement(c, e) ==
    addElementNoLineBreak(IF fitsInLine(c, e.width) THEN c ELSE breakLine(c), e)

----------------------------------------------------------------------------
(* MessageElement: the fields every element has *)

MessageElement(kind, flags) ==
    [kind |-> kind, flags |-> flags, link |-> "None", text |-> <<>>,
     tooltip |-> <<>>, thumbnail |-> "None", thumbnailType |-> "Image",
     trailingSpace |-> TRUE]

addFlags(el, flags) == [el EXCEPT !.flags = @ \cup flags]

setTrailingSpace(el, value) == [el EXCEPT !.trailingSpace = value]

setLink(el, link) == [el EXCEPT !.link = link]

setText(el, text) == [el EXCEPT !.text = text]

setTooltip(el, tooltip) == [el EXCEPT !.tooltip = tooltip]

setThumbnail(el, thumbnail) == [el EXCEPT !.thumbnail = thumbnail]

setThumbnailType(el, type) == [el EXCEPT !.thumbnailType = type]

----------------------------------------------------------------------------
(* TextElement *)

ToWords(texts) == [i \in 1..Len(texts) |-> [text |-> texts[i], width |-> -1]]

\* TextElement(const QString &text, ...)
TextElement(text, flags) ==
    [kind |-> "Text", flags |-> flags, link |-> "None", text |-> <<>>,
     tooltip |-> <<>>, thumbnail |-> "None", thumbnailType |-> "Image",
     trailingSpace |-> TRUE, words |-> ToWords(split(text))]

\* TextElement(std::vector<Word> &&words, ...)
TextElementOfWords(words, flags) ==
    [kind |-> "Text", flags |-> flags, link |-> "None", text |-> <<>>,
     tooltip |-> <<>>, thumbnail |-> "None", thumbnailType |-> "Image",
     trailingSpace |-> TRUE, words |-> words]

\* the lambda getTextLayoutElement
getTextLayoutElement(el, c, text, width, hasTrailingSpace, word) ==
    Primitive("text", text, width, hasTrailingSpace, el.link, c, word)

\* measureWord with the width accumulated in the cached field
measureWordCumulative(word, scale) ==
    IF word.width = -1 THEN horizontalAdvance(word.text, scale)
    ELSE word.width + horizontalAdvance(word.text, scale)

\* word.width = metrics.horizontalAdvance(word.text)
measureWord(word, scale) == horizontalAdvance(word.text, scale)

\* wrapChars continuing after the character that did not fit
RECURSIVE wrapCharsDropsChar(_, _, _, _, _, _, _)
wrapCharsDropsChar(c, el, text, i, wordStart, width, wi) ==
    IF i >= Len(text)
    THEN addElementNoLineBreak(c,
             getTextLayoutElement(el, c, mid(text, wordStart, Len(text)), width,
                                  el.trailingSpace, wi))
    ELSE LET isSurrogate == Len(text) > i + 1 /\ isHighSurrogate(text[i + 1])
             charWidth == IF isSurrogate
                          THEN horizontalAdvance(mid(text, i, 2), c.scale)
                          ELSE horizontalAdvance(<<text[i + 1]>>, c.scale)
             next == IF isSurrogate THEN i + 2 ELSE i + 1
         IN  IF ~fitsInLine(c, width + charWidth)
             THEN wrapCharsDropsChar(
                      breakLine(addElementNoLineBreak(c,
                          getTextLayoutElement(el, c, mid(text, wordStart, i - wordStart),
                                               width, FALSE, wi))),
                      el, text, next, next, 0, wi)
             ELSE wrapCharsDropsChar(c, el, text, next, wordStart, width + charWidth, wi)

\* wrapChars giving every fragment the element's trailing space
RECURSIVE wrapCharsTrailing(_, _, _, _, _, _, _)
wrapCharsTrailing(c, el, text, i, wordStart, width, wi) ==
    IF i >= Len(text)
    THEN addElementNoLineBreak(c,
             getTextLayoutElement(el, c, mid(text, wordStart, Len(text)), width,
                                  el.trailingSpace, wi))
    ELSE LET isSurrogate == Len(text) > i + 1 /\ isHighSurrogate(text[i + 1])
             charWidth == IF isSurrogate
                          THEN horizontalAdvance(mid(text, i, 2), c.scale)
                          ELSE horizontalAdvance(<<text[i + 1]>>, c.scale)
             next == IF isSurrogate THEN i + 2 ELSE i + 1
         IN  IF ~fitsInLine(c, width + charWidth)
             THEN wrapCharsTrailing(
                      breakLine(addElementNoLineBreak(c,
                          getTextLayoutElement(el, c, mid(text, wordStart, i - wordStart),
                                               width, el.trailingSpace, wi))),
                      el, text, next, i, charWidth, wi)
             ELSE wrapCharsTrailing(c, el, text, next, wordStart, width + charWidth, wi)

\* wrapChars walking one code unit at a time
RECURSIVE wrapCharsPerUnit(_, _, _, _, _, _, _)
wrapCharsPerUnit(c, el, text, i, wordStart, width, wi) ==
    IF i >= Len(text)
    THEN addElementNoLineBreak(c,
             getTextLayoutElement(el, c, mid(text, wordStart, Len(text)), width,
                                  el.trailingSpace, wi))
    ELSE LET charWidth == horizontalAdvance(<<text[i + 1]>>, c.scale)
             next == i + 1
         IN  IF ~fitsInLine(c, width + charWidth)
             THEN wrapCharsPerUnit(
                      breakLine(addElementNoLineBreak(c,
                          getTextLayoutElement(el, c, mid(text, wordStart, i - wordStart),
                                               width, FALSE, wi))),
                      el, text, next, i, charWidth, wi)
             ELSE wrapCharsPerUnit(c, el, text, next, wordStart, width + charWidth, wi)

\* the character loop of a word that fits no line, from character i on
RECURSIVE wrapChars(_, _, _, _, _, _, _)
wrapChars(c, el, text, i, wordStart, width, wi) ==
    IF i >= Len(text)
    THEN addElementNoLineBreak(c,
             getTextLayoutElement(el, c, mid(text, wordStart, Len(text)), width,
                                  el.trailingSpace, wi))
    ELSE LET isSurrogate == Len(text) > i + 1 /\ isHighSurrogate(text[i + 1])
             charWidth == IF isSurrogate
                          THEN horizontalAdvance(mid(text, i, 2), c.scale)
                          ELSE horizontalAdvance(<<text[i + 1]>>, c.scale)
             next == IF isSurrogate THEN i + 2 ELSE i + 1
         IN  IF ~fitsInLine(c, width + charWidth)
             THEN wrapChars(
                      breakLine(addElementNoLineBreak(c,
                          getTextLayoutElement(el, c, mid(text, wordStart, i - wordStart),
                                               width, FALSE, wi))),
                      el, text, next, i, charWidth, wi)
             ELSE wrapChars(c, el, text, next, wordStart, width + charWidth, wi)

\* addWord taking the word to fit the next line without looking
addWordNoRetry(c, el, text, width, wi) ==
    IF fitsInLine(c, width)
    THEN addElementNoLineBreak(c,
             getTextLayoutElement(el, c, text, width, el.trailingSpace, wi))
    ELSE LET c1 == breakLine(c)
         IN  addElementNoLineBreak(c1,
                 getTextLayoutElement(el, c1, text, width, el.trailingSpace, wi))

\* addWord starting every word on a line of its own
addWordAlwaysBreaks(c, el, text, width, wi) ==
    LET c1 == IF ~atStartOfLine(c) THEN breakLine(c) ELSE c
    IN  IF fitsInLine(c1, width)
        THEN addElementNoLineBreak(c1,
                 getTextLayoutElement(el, c1, text, width, el.trailingSpace, wi))
        ELSE wrapChars(c1, el, text, 0, 0, 0, wi)

\* the body of the loop over the words, for word number wi of width `width`
addWord(c, el, text, width, wi) ==
    IF fitsInLine(c, width)
    THEN addElementNoLineBreak(c,
             getTextLayoutElement(el, c, text, width, el.trailingSpace, wi))
    ELSE LET c1 == IF ~atStartOfLine(c) THEN breakLine(c) ELSE c
         IN  IF ~atStartOfLine(c) /\ fitsInLine(c1, width)
             THEN addElementNoLineBreak(c1,
                      getTextLayoutElement(el, c1, text, width, el.trailingSpace, wi))
             ELSE wrapChars(c1, el, text, 0, 0, 0, wi)

RECURSIVE addWords(_, _, _)
addWords(c, el, wi) ==
    IF wi > Len(el.words) THEN [c |-> c, el |-> el]
    ELSE LET width == measureWord(el.words[wi], c.scale)
             el1 == [el EXCEPT !.words[wi].width = width]
         IN  addWords(addWord(c, el1, el1.words[wi].text, el1.words[wi].width, wi),
                      el1, wi + 1)

\* addToContainer with the flag test left out
TextElementUngated(el, c, flags) == addWords(c, el, 1) @@ [gate |-> TRUE]

TextElementAddToContainer(el, c, flags) ==
    IF hasAny(flags, el.flags) THEN addWords(c, el, 1) @@ [gate |-> TRUE]
    ELSE [c |-> c, el |-> el, gate |-> FALSE]

----------------------------------------------------------------------------
(* SingleLineTextElement *)

\* Emojis::parse: the runs of text between the emoji, and an emote for each emoji
RECURSIVE parseFrom(_, _, _)
parseFrom(text, i, current) ==
    LET flush == IF Len(current) = 0 THEN <<>> ELSE <<[type |-> "QString", text |-> current]>>
    IN  IF i > Len(text) THEN flush
        ELSE IF text[i] \in {"E", "F"}
             THEN flush \o <<[type |-> "EmotePtr", text |-> <<text[i]>>]>>
                        \o parseFrom(text, i + 1, <<>>)
             ELSE parseFrom(text, i + 1, Append(current, text[i]))

parse(text) == parseFrom(text, 1, <<>>)

\* the number of code units of the grapheme that starts text
GraphemeLen(text) == IF Len(text) >= 2 /\ text[1] = "H" /\ text[2] = "L" THEN 2 ELSE 1

\* QTextEngine::elidedText, Qt::ElideRight: the position before the last
\* grapheme walked when the walk ends
RECURSIVE elidePos(_, _, _, _, _)
elidePos(text, nextBreak, currentWidth, availableWidth, scale) ==
    LET n == GraphemeLen(SubSeq(text, nextBreak + 1, Len(text)))
        w == currentWidth + horizontalAdvance(mid(text, nextBreak, n), scale)
    IN  IF nextBreak + n < Len(text) /\ w < availableWidth
        THEN elidePos(text, nextBreak + n, w, availableWidth, scale)
        ELSE nextBreak

\* QFontMetrics::elidedText(text, Qt::ElideRight, width); "~" is the ellipsis
\* character U+2026
elidedText(text, width, scale) ==
    IF horizontalAdvance(text, scale) <= width THEN text
    ELSE LET availableWidth == width - horizontalAdvance(<<"~">>, scale)
         IN  mid(text, 0, elidePos(text, 0, 0, availableWidth, scale)) \o <<"~">>

\* QString::trimmed
RECURSIVE trimmed(_)
trimmed(text) ==
    IF Len(text) = 0 THEN text
    ELSE IF text[1] = " " THEN trimmed(Tail(text))
    ELSE IF text[Len(text)] = " " THEN trimmed(SubSeq(text, 1, Len(text) - 1))
    ELSE text

ellipsis == <<".", ".", ".">>

SingleLineTextElement(text, flags) ==
    [kind |-> "SingleLineText", flags |-> flags, link |-> "None", text |-> <<>>,
     tooltip |-> <<>>, thumbnail |-> "None", thumbnailType |-> "Image",
     trailingSpace |-> TRUE, words |-> ToWords(split(text))]

\* ImageSet::getImageOrLoaded
getImageOrLoaded(st, emote, scale) == st.images[emote]

\* an image layout element of a size
ImagePrimitive(c, op, image, width, height, link) ==
    [Primitive(op, <<image.name>>, width, TRUE, link, c, 0) EXCEPT !.height = height]

\* what is recorded of each token: what it was and what it met
Seen(s, token) ==
    [token |-> token, pendingBefore |-> s.currentText,
     logBefore |-> Len(s.c.log), afterStop |-> s.stops > 0]

Step(seen, s, outcome) ==
    seen @@ [pendingAfter |-> s.currentText, logAfter |-> Len(s.c.log),
             outcome |-> outcome]

\* a plain-text token; s is the state of the two loops: the container, the
\* pending text and whether the inner loop was left
singleLineText(s, token) ==
    LET joined == (IF Len(s.currentText) > 0 THEN Append(s.currentText, " ")
                   ELSE s.currentText) \o token.text
        elided == elidedText(joined, remainingWidth(s.c), s.c.scale)
        s1 == [s EXCEPT !.currentText = elided,
                        !.break = (elided # joined),
                        !.stops = @ + (IF elided # joined THEN 1 ELSE 0)]
    IN  [s1 EXCEPT !.events = Append(@, Step(Seen(s, token), s1,
                        IF elided # joined THEN "elided" ELSE "appended"))]

\* singleLineEmote leaving the pending text in place after emitting it
singleLineEmoteKeepsPending(s, el, token, st) ==
    LET c == s.c
        image == getImageOrLoaded(st, token.text[1], c.scale)
        currentWidth == horizontalAdvance(s.currentText, c.scale)
        emoteWidth == image.width * (st.emoteScale * c.scale)
        c1 == addElementNoLineBreak(c,
                  getTextLayoutElement(el, c, s.currentText, currentWidth, FALSE, 0))
        c2 == addElementNoLineBreak(c1,
                  ImagePrimitive(c1, "image", image, emoteWidth,
                                 image.height * (st.emoteScale * c.scale), el.link))
        s1 == IF image.empty THEN s
              ELSE IF ~fitsInLine(c, currentWidth + emoteWidth)
                   THEN [s EXCEPT !.currentText = @ \o ellipsis, !.break = TRUE,
                                  !.stops = @ + 1]
                   ELSE [s EXCEPT !.c = c2]
    IN  [s1 EXCEPT !.events = Append(@, Step(Seen(s, token), s1,
                        IF image.empty THEN "noimage"
                        ELSE IF ~fitsInLine(c, currentWidth + emoteWidth) THEN "nofit"
                        ELSE "emote"))]

\* an emote token
singleLineEmote(s, el, token, st) ==
    LET c == s.c
        image == getImageOrLoaded(st, token.text[1], c.scale)
        currentWidth == horizontalAdvance(s.currentText, c.scale)
        emoteWidth == image.width * (st.emoteScale * c.scale)
        c1 == addElementNoLineBreak(c,
                  getTextLayoutElement(el, c, s.currentText, currentWidth, FALSE, 0))
        c2 == addElementNoLineBreak(c1,
                  ImagePrimitive(c1, "image", image, emoteWidth,
                                 image.height * (st.emoteScale * c.scale), el.link))
        s1 == IF image.empty THEN s
              ELSE IF ~fitsInLine(c, currentWidth + emoteWidth)
                   THEN [s EXCEPT !.currentText = @ \o ellipsis, !.break = TRUE,
                                  !.stops = @ + 1]
                   ELSE [s EXCEPT !.c = c2, !.currentText = <<>>]
    IN  [s1 EXCEPT !.events = Append(@, Step(Seen(s, token), s1,
                        IF image.empty THEN "noimage"
                        ELSE IF ~fitsInLine(c, currentWidth + emoteWidth) THEN "nofit"
                        ELSE "emote"))]

singleLineToken(s, el, token, st) ==
    IF token.type = "QString" THEN singleLineText(s, token)
    ELSE singleLineEmote(s, el, token, st)

\* the loop over the tokens of one word: a break leaves this loop only
RECURSIVE singleLineTokens(_, _, _, _, _)
singleLineTokens(s, el, tokens, k, st) ==
    IF k > Len(tokens) \/ s.break THEN s
    ELSE singleLineTokens(singleLineToken(s, el, tokens[k], st), el, tokens, k + 1, st)

\* the loop over the words
RECURSIVE singleLineWords(_, _, _, _)
singleLineWords(s, el, wi, st) ==
    IF wi > Len(el.words) THEN s
    ELSE singleLineWords(
             singleLineTokens([s EXCEPT !.break = FALSE], el,
                              parse(el.words[wi].text), 1, st),
             el, wi + 1, st)

\* addToContainer breaking the line only behind pending text
SingleLineBreaksAfterTextOnly(el, c, flags, st) ==
    IF hasAny(flags, el.flags)
    THEN LET s0 == [c |-> [c EXCEPT !.first = "Neutral"], currentText |-> <<>>,
                    break |-> FALSE, stops |-> 0, events |-> <<>>]
             s == singleLineWords(s0, el, 1, st)
             c1 == IF Len(s.currentText) > 0
                   THEN LET text == trimmed(s.currentText)
                        IN  breakLine(addElementNoLineBreak(s.c,
                                getTextLayoutElement(el, s.c, text,
                                    horizontalAdvance(text, s.c.scale), FALSE, 0)))
                   ELSE s.c
         IN  [c |-> c1, el |-> el, steps |-> s.events, gate |-> TRUE]
    ELSE [c |-> c, el |-> el, steps |-> <<>>, gate |-> FALSE]

SingleLineTextElementAddToContainer(el, c, flags, st) ==
    IF hasAny(flags, el.flags)
    THEN LET s0 == [c |-> [c EXCEPT !.first = "Neutral"], currentText |-> <<>>,
                    break |-> FALSE, stops |-> 0, events |-> <<>>]
             s == singleLineWords(s0, el, 1, st)
             c1 == IF Len(s.currentText) > 0
                   THEN LET text == trimmed(s.currentText)
                        IN  addElementNoLineBreak(s.c,
                                getTextLayoutElement(el, s.c, text,
                                    horizontalAdvance(text, s.c.scale), FALSE, 0))
                   ELSE s.c
         IN  [c |-> breakLine(c1), el |-> el, steps |-> s.events, gate |-> TRUE]
    ELSE [c |-> c, el |-> el, steps |-> <<>>, gate |-> FALSE]

----------------------------------------------------------------------------
(* The other element variants *)

NullElement == [kind |-> "null"]

\* Emote::getCopyString and Emote::tooltip of the emote named by an emoji
getCopyString(emote) == <<emote>>

emoteTooltip(emote) == <<"t", emote>>

EmptyElement == MessageElement("Empty", {})

EmptyElementAddToContainer(el, c, flags) == [c |-> c, el |-> el, gate |-> FALSE]

ImageElement(image, flags) == MessageElement("Image", flags) @@ [image |-> image]

ImageElementAddToContainer(el, c, flags) ==
    IF hasAny(flags, el.flags)
    THEN [c |-> addElement(c, ImagePrimitive(c, "image", el.image,
                                  el.image.width * c.scale,
                                  el.image.height * c.scale, el.link)),
          el |-> el, gate |-> TRUE]
    ELSE [c |-> c, el |-> el, gate |-> FALSE]

CircularImageElement(image, flags) ==
    MessageElement("CircularImage", flags) @@ [image |-> image]

CircularImageElementAddToContainer(el, c, flags) ==
    IF hasAny(flags, el.flags)
    THEN [c |-> addElement(c, ImagePrimitive(c, "circle", el.image,
                                  el.image.width * c.scale,
                                  el.image.height * c.scale, el.link)),
          el |-> el, gate |-> TRUE]
    ELSE [c |-> c, el |-> el, gate |-> FALSE]

EmoteElement(emote, flags) ==
    [MessageElement("Emote", flags) EXCEPT !.tooltip = emoteTooltip(emote)]
        @@ [emote |-> emote, textElement |-> TextElement(getCopyString(emote), {"Misc"})]

\* addToContainer rendering the text when the image is not loaded
EmoteFallsBackOnEmptyImage(el, c, flags, st) ==
    IF hasAny(flags, el.flags)
    THEN LET image == getImageOrLoaded(st, el.emote, c.scale)
             r == TextElementAddToContainer(el.textElement, c, {"Misc"})
         IN  IF has(flags, "EmoteImages") /\ ~image.empty
             THEN [c |-> addElement(c, ImagePrimitive(c, "image", image,
                                   c.scale * image.width * st.emoteScale,
                                   c.scale * image.height * st.emoteScale, el.link)),
                   el |-> el, gate |-> TRUE]
             ELSE [c |-> r.c, el |-> [el EXCEPT !.textElement = r.el], gate |-> TRUE]
    ELSE [c |-> c, el |-> el, gate |-> FALSE]

EmoteElementAddToContainer(el, c, flags, st) ==
    IF hasAny(flags, el.flags)
    THEN IF has(flags, "EmoteImages")
         THEN LET image == getImageOrLoaded(st, el.emote, c.scale)
              IN  IF image.empty THEN [c |-> c, el |-> el, gate |-> TRUE]
                  ELSE [c |-> addElement(c, ImagePrimitive(c, "image", image,
                                   c.scale * image.width * st.emoteScale,
                                   c.scale * image.height * st.emoteScale, el.link)),
                        el |-> el, gate |-> TRUE]
         ELSE IF el.textElement # NullElement
              THEN LET r == TextElementAddToContainer(el.textElement, c, {"Misc"})
                   IN  [c |-> r.c, el |-> [el EXCEPT !.textElement = r.el], gate |-> TRUE]
              ELSE [c |-> c, el |-> el, gate |-> TRUE]
    ELSE [c |-> c, el |-> el, gate |-> FALSE]

\* LayeredEmoteElement::getCopyString
RECURSIVE layeredCopyString(_, _)
layeredCopyString(emotes, i) ==
    IF i > Len(emotes) THEN <<>>
    ELSE (IF i # 1 THEN <<" ">> ELSE <<>>) \o getCopyString(emotes[i].ptr)
             \o layeredCopyString(emotes, i + 1)

updateTooltips(el) ==
    LET copyStr == layeredCopyString(el.emotes, 1)
        el1 == IF Len(el.emotes) > 0
               THEN [el EXCEPT !.textElement = TextElement(copyStr, {"Misc"}),
                               !.tooltip = copyStr]
               ELSE el
    IN  [el1 EXCEPT !.emoteTooltips =
             [i \in 1..Len(el.emotes) |-> emoteTooltip(el.emotes[i].ptr)]]

LayeredEmoteElement(emotes, flags) ==
    updateTooltips(MessageElement("LayeredEmote", flags)
        @@ [emotes |-> emotes, textElement |-> NullElement, emoteTooltips |-> <<>>])

addEmoteLayer(el, emote) == updateTooltips([el EXCEPT !.emotes = Append(@, emote)])

\* LayeredEmoteElement::getUniqueEmotes: std::copy_if with the set of the
\* emote pointers seen
RECURSIVE NotDuplicate(_, _, _)
NotDuplicate(emotes, i, seen) ==
    IF i > Len(emotes) THEN <<>>
    ELSE IF emotes[i].ptr \in seen THEN NotDuplicate(emotes, i + 1, seen)
    ELSE <<emotes[i]>> \o NotDuplicate(emotes, i + 1, seen \cup {emotes[i].ptr})

\* getUniqueEmotes returning every layer
getUniqueEmotesKeepsAll(el) == el.emotes

getUniqueEmotes(el) == NotDuplicate(el.emotes, 1, {})

\* getLoadedImages returning the image of every layer, loaded or not
getLoadedImagesKeepsEmpty(el, st, scale, i) ==
    [k \in 1..Len(el.emotes) |-> getImageOrLoaded(st, el.emotes[k].ptr, scale)]

RECURSIVE getLoadedImages(_, _, _, _)
getLoadedImages(el, st, scale, i) ==
    IF i > Len(el.emotes) THEN <<>>
    ELSE LET image == getImageOrLoaded(st, el.emotes[i].ptr, scale)
         IN  (IF image.empty THEN <<>> ELSE <<image>>)
                 \o getLoadedImages(el, st, scale, i + 1)

Max(a, b) == IF a > b THEN a ELSE b

\* getBoundingBoxSize returning the size of the first image
getBoundingBoxSizeOfFirst(images, i, width, height) ==
    IF Len(images) = 0 THEN [width |-> 0, height |-> 0]
    ELSE [width |-> images[1].width, height |-> images[1].height]

RECURSIVE getBoundingBoxSize(_, _, _, _)
getBoundingBoxSize(images, i, width, height) ==
    IF i > Len(images) THEN [width |-> width, height |-> height]
    ELSE getBoundingBoxSize(images, i + 1, Max(width, images[i].width),
                            Max(height, images[i].height))

LayeredEmoteElementAddToContainer(el, c, flags, st) ==
    IF hasAny(flags, el.flags)
    THEN IF has(flags, "EmoteImages")
         THEN LET images == getLoadedImages(el, st, c.scale, 1)
                  overallScale == st.emoteScale * c.scale
                  box == getBoundingBoxSize(images, 1, 0, 0)
                  individualSizes ==
                      [i \in 1..Len(images) |->
                          [width |-> images[i].width * overallScale,
                           height |-> images[i].height * overallScale]]
              IN  IF Len(images) = 0 THEN [c |-> c, el |-> el, gate |-> TRUE]
                  ELSE [c |-> addElement(c,
                                [Primitive("layered", [i \in 1..Len(images) |-> images[i].name],
                                           box.width * overallScale, TRUE, el.link, c, 0)
                                    EXCEPT !.height = box.height * overallScale]
                                @@ [sizes |-> individualSizes]),
                        el |-> el, gate |-> TRUE]
         ELSE IF el.textElement # NullElement
              THEN LET r == TextElementAddToContainer(el.textElement, c, {"Misc"})
                   IN  [c |-> r.c, el |-> [el EXCEPT !.textElement = r.el], gate |-> TRUE]
              ELSE [c |-> c, el |-> el, gate |-> TRUE]
    ELSE [c |-> c, el |-> el, gate |-> FALSE]

\* BadgeElement and its subtypes ModBadge, VipBadge and FfzBadge
BadgeElement(kind, emote, flags) ==
    [MessageElement(kind, flags) EXCEPT !.tooltip = emoteTooltip(emote)]
        @@ [emote |-> emote]

\* makeImageLayoutElement of the badge types: a background for two of them
badgeImageOp(kind) ==
    IF kind \in {"ModBadge", "FfzBadge"} THEN "imageWithBackground" ELSE "image"

BadgeElementAddToContainer(el, c, flags, st) ==
    IF hasAny(flags, el.flags)
    THEN LET image == getImageOrLoaded(st, el.emote, c.scale)
         IN  IF image.empty THEN [c |-> c, el |-> el, gate |-> TRUE]
             ELSE [c |-> addElement(c, ImagePrimitive(c, badgeImageOp(el.kind), image,
                                           c.scale * image.width,
                                           c.scale * image.height, el.link)),
                   el |-> el, gate |-> TRUE]
    ELSE [c |-> c, el |-> el, gate |-> FALSE]

\* QLocale::toString(time, format): every pattern letter is replaced by the
\* digit of that field of the time
toString(time, format) ==
    [i \in 1..Len(format) |->
        IF format[i] = "h" THEN time.h
        ELSE IF format[i] = "m" THEN time.m
        ELSE IF format[i] = "s" THEN time.s
        ELSE format[i]]

formatTime(time, st) == TextElement(toString(time, st.timestampFormat), {"Timestamp"})

TimestampElement(time, st) ==
    MessageElement("Timestamp", {"Timestamp"})
        @@ [time |-> time, format |-> <<>>, element |-> formatTime(time, st)]

\* what one addToContainer of a Timestamp element met and did
TimestampStep(el, st, reformatted) ==
    <<[setting |-> st.timestampFormat, cached |-> el.format,
       reformatted |-> reformatted]>>

\* addToContainer keeping the sub-element whatever the setting is
TimestampKeepsElement(el, c, flags, st) ==
    IF hasAny(flags, el.flags)
    THEN LET el1 == [el EXCEPT !.format = st.timestampFormat]
             r == TextElementAddToContainer(el1.element, c, flags)
         IN  [c |-> r.c, el |-> [el1 EXCEPT !.element = r.el], gate |-> r.gate,
              steps |-> TimestampStep(el, st, FALSE)]
    ELSE [c |-> c, el |-> el, gate |-> FALSE, steps |-> <<>>]

\* addToContainer formatting the time on every call
TimestampAlwaysFormats(el, c, flags, st) ==
    IF hasAny(flags, el.flags)
    THEN LET el1 == [el EXCEPT !.format = st.timestampFormat,
                               !.element = formatTime(el.time, st)]
             r == TextElementAddToContainer(el1.element, c, flags)
         IN  [c |-> r.c, el |-> [el1 EXCEPT !.element = r.el], gate |-> r.gate,
              steps |-> TimestampStep(el, st, TRUE)]
    ELSE [c |-> c, el |-> el, gate |-> FALSE, steps |-> <<>>]

TimestampElementAddToContainer(el, c, flags, st) ==
    IF hasAny(flags, el.flags)
    THEN LET reformat == st.timestampFormat # el.format
             el1 == IF reformat
                    THEN [el EXCEPT !.format = st.timestampFormat,
                                    !.element = formatTime(el.time, st)]
                    ELSE el
             r == TextElementAddToContainer(el1.element, c, flags)
         IN  [c |-> r.c, el |-> [el1 EXCEPT !.element = r.el], gate |-> r.gate,
              steps |-> TimestampStep(el, st, reformat)]
    ELSE [c |-> c, el |-> el, gate |-> FALSE, steps |-> <<>>]

TwitchModerationElement == MessageElement("TwitchModeration", {"ModeratorTools"})

RECURSIVE addModerationActions(_, _, _)
addModerationActions(c, actions, i) ==
    IF i > Len(actions) THEN c
    ELSE LET action == actions[i]
             link == <<"UserAction", action.action>>
             e == IF ~action.image.empty
                  THEN ImagePrimitive(c, "image", action.image, c.scale * 16,
                                      c.scale * 16, link)
                  ELSE [Primitive("texticon", <<action.line1, action.line2>>,
                                  c.scale * 16, TRUE, link, c, 0)
                           EXCEPT !.height = c.scale * 16]
         IN  addModerationActions(addElement(c, e), actions, i + 1)

\* addToContainer leaving out a last action that repeats an earlier one
TwitchModerationDropsRepeat(el, c, flags, st) ==
    IF has(flags, "ModeratorTools")
    THEN LET actions == st.moderationActions
             n == Len(actions)
             kept == IF n >= 2 /\ actions[n] \in {actions[i] : i \in 1..(n - 1)}
                     THEN SubSeq(actions, 1, n - 1) ELSE actions
         IN  [c |-> addModerationActions(c, kept, 1), el |-> el, gate |-> TRUE]
    ELSE [c |-> c, el |-> el, gate |-> FALSE]

TwitchModerationElementAddToContainer(el, c, flags, st) ==
    IF has(flags, "ModeratorTools")
    THEN [c |-> addModerationActions(c, st.moderationActions, 1), el |-> el,
          gate |-> TRUE]
    ELSE [c |-> c, el |-> el, gate |-> FALSE]

LinebreakElement(flags) == MessageElement("Linebreak", flags)

LinebreakElementAddToContainer(el, c, flags) ==
    IF hasAny(flags, el.flags) THEN [c |-> breakLine(c), el |-> el, gate |-> TRUE]
    ELSE [c |-> c, el |-> el, gate |-> FALSE]

ScalingImageElement(images, flags) ==
    MessageElement("ScalingImage", flags) @@ [images |-> images]

ScalingImageElementAddToContainer(el, c, flags, st) ==
    IF hasAny(flags, el.flags)
    THEN LET image == getImageOrLoaded(st, el.images, c.scale)
         IN  IF image.empty THEN [c |-> c, el |-> el, gate |-> TRUE]
             ELSE [c |-> addElement(c, ImagePrimitive(c, "image", image,
                                           image.width * c.scale,
                                           image.height * c.scale, el.link)),
                   el |-> el, gate |-> TRUE]
    ELSE [c |-> c, el |-> el, gate |-> FALSE]

ReplyCurveElement == MessageElement("ReplyCurve", {"RepliedMessage"})

ReplyCurveElementAddToContainer(el, c, flags) ==
    IF hasAny(flags, el.flags)
    THEN [c |-> addElement(c, [Primitive("replycurve", <<>>, 18 * c.scale, TRUE,
                                         "None", c, 0) EXCEPT !.height = 0]),
          el |-> el, gate |-> TRUE]
    ELSE [c |-> c, el |-> el, gate |-> FALSE]

----------------------------------------------------------------------------
(* clone() of every variant: the constructor, then cloneFrom *)

\* cloneFrom that leaves the tooltip the constructor set
cloneFromKeepsTooltip(el, source) ==
    [el EXCEPT !.text = source.text, !.link = source.link,
               !.thumbnail = source.thumbnail,
               !.thumbnailType = source.thumbnailType, !.flags = source.flags]

cloneFrom(el, source) ==
    [el EXCEPT !.text = source.text, !.link = source.link,
               !.tooltip = source.tooltip, !.thumbnail = source.thumbnail,
               !.thumbnailType = source.thumbnailType, !.flags = source.flags]

EmptyElementClone(el) == cloneFrom(EmptyElement, el)

ImageElementClone(el) == cloneFrom(ImageElement(el.image, el.flags), el)

CircularImageElementClone(el) == cloneFrom(CircularImageElement(el.image, el.flags), el)

TextElementClone(el) ==
    cloneFrom([TextElement(<<>>, el.flags) EXCEPT !.words = el.words], el)

SingleLineTextElementClone(el) ==
    cloneFrom([SingleLineTextElement(<<>>, el.flags) EXCEPT !.words = el.words], el)

EmoteElementClone(el) ==
    cloneFrom([EmoteElement(el.emote, el.flags)
                   EXCEPT !.textElement = TextElementClone(el.textElement)], el)

LayeredEmoteElementClone(el) == cloneFrom(LayeredEmoteElement(el.emotes, el.flags), el)

BadgeElementClone(el) == cloneFrom(BadgeElement(el.kind, el.emote, el.flags), el)

TimestampElementClone(el, st) == cloneFrom(TimestampElement(el.time, st), el)

TwitchModerationElementClone(el) == cloneFrom(TwitchModerationElement, el)

LinebreakElementClone(el) == cloneFrom(LinebreakElement(el.flags), el)

ScalingImageElementClone(el) == cloneFrom(ScalingImageElement(el.images, el.flags), el)

ReplyCurveElementClone(el) == cloneFrom(ReplyCurveElement, el)

\* the members an element owns: a vector or an object behind a unique_ptr
OwnedMembers == {"words", "textElement", "element", "emotes", "emoteTooltips"}

cloneElement(el, st) ==
    CASE el.kind = "Text" -> TextElementClone(el)
      [] el.kind = "SingleLineText" -> SingleLineTextElementClone(el)
      [] el.kind = "Empty" -> EmptyElementClone(el)
      [] el.kind = "Image" -> ImageElementClone(el)
      [] el.kind = "CircularImage" -> CircularImageElementClone(el)
      [] el.kind = "Emote" -> EmoteElementClone(el)
      [] el.kind = "LayeredEmote" -> LayeredEmoteElementClone(el)
      [] el.kind \in {"Badge", "ModBadge", "VipBadge", "FfzBadge"} -> BadgeElementClone(el)
      [] el.kind = "Timestamp" -> TimestampElementClone(el, st)
      [] el.kind = "TwitchModeration" -> TwitchModerationElementClone(el)
      [] el.kind = "Linebreak" -> LinebreakElementClone(el)
      [] el.kind = "ScalingImage" -> ScalingImageElementClone(el)
      [] el.kind = "ReplyCurve" -> ReplyCurveElementClone(el)

\* clone() handing the original's owned members to the copy by reference
cloneSharingOwned(el, st) ==
    [el |-> [f \in DOMAIN el |->
                IF f \in OwnedMembers THEN el[f] ELSE cloneElement(el, st)[f]],
     shares |-> OwnedMembers \cap DOMAIN el]

\* the virtual call element->clone(): every owned member of the result is a
\* fresh vector or object, none refers to a member of the original
clone(el, st) == [el |-> cloneElement(el, st), shares |-> {}]

----------------------------------------------------------------------------
(* Rendering an element into the container *)

NoSteps == <<>>

BadgeKinds == {"Badge", "ModBadge", "VipBadge", "FfzBadge"}

\* the virtual call element->addToContainer(container, flags)
AddToContainer(el, c, flags, st) ==
    CASE el.kind = "Text" ->
            TextElementAddToContainer(el, c, flags) @@ [steps |-> NoSteps]
      [] el.kind = "SingleLineText" ->
            SingleLineTextElementAddToContainer(el, c, flags, st)
      [] el.kind = "Empty" ->
            EmptyElementAddToContainer(el, c, flags) @@ [steps |-> NoSteps]
      [] el.kind = "Image" ->
            ImageElementAddToContainer(el, c, flags) @@ [steps |-> NoSteps]
      [] el.kind = "CircularImage" ->
            CircularImageElementAddToContainer(el, c, flags) @@ [steps |-> NoSteps]
      [] el.kind = "Emote" ->
            EmoteElementAddToContainer(el, c, flags, st) @@ [steps |-> NoSteps]
      [] el.kind = "LayeredEmote" ->
            LayeredEmoteElementAddToContainer(el, c, flags, st) @@ [steps |-> NoSteps]
      [] el.kind \in BadgeKinds ->
            BadgeElementAddToContainer(el, c, flags, st) @@ [steps |-> NoSteps]
      [] el.kind = "Timestamp" ->
            TimestampElementAddToContainer(el, c, flags, st)
      [] el.kind = "TwitchModeration" ->
            TwitchModerationElementAddToContainer(el, c, flags, st) @@ [steps |-> NoSteps]
      [] el.kind = "Linebreak" ->
            LinebreakElementAddToContainer(el, c, flags) @@ [steps |-> NoSteps]
      [] el.kind = "ScalingImage" ->
            ScalingImageElementAddToContainer(el, c, flags, st) @@ [steps |-> NoSteps]
      [] el.kind = "ReplyCurve" ->
            ReplyCurveElementAddToContainer(el, c, flags) @@ [steps |-> NoSteps]

Scales == {1, 2}

\* the states a container can be in when an element is asked to render:
\* an empty line, or a line holding earlier elements (which may overhang it)
Containers ==
    {[width |-> w, currentX |-> x, atStart |-> s, scale |-> sc,
      spaceWidth |-> horizontalAdvance(<<" ">>, sc), first |-> "LTR", log |-> <<>>] :
        w \in 1..MaxLineWidth, x \in 0..(MaxLineWidth + 2), s \in BOOLEAN,
        sc \in Scales}

ReachableContainers ==
    {c \in Containers : /\ c.atStart => c.currentX = 0
                        /\ c.currentX <= c.width + c.spaceWidth}

NoSettings == [timestampFormat |-> <<"h", ":", "m">>, emoteScale |-> 1,
               images |-> <<>>, moderationActions |-> <<>>]

NoProbe == [before |-> <<>>, after |-> <<>>, steps |-> NoSteps, gate |-> FALSE]

NoRender == [c |-> [log |-> <<>>], flags |-> {}, probe |-> NoProbe]

\* the fields of other that refer to objects of changed follow them
Alias(other, changed, fields) ==
    [f \in DOMAIN other |-> IF f \in fields THEN changed[f] ELSE other[f]]

\* no clone() was called, no setter and no query
NoClone == copy = NullElement /\ shared = {} /\ muts = 0 /\ ret = <<>>

NoMessage == [kind |-> "null"]

NoPublished == <<>>

\* no Message is under test
NoMessages == message = NoMessage /\ published = NoPublished

\* no addToContainer is under way
NoCall == [line |-> "idle"]

\* no channel: no command was run
NoChannel == [messages |-> <<>>, requests |-> <<>>, runs |-> <<>>, responses |-> <<>>]

\* no LoggingChannel was constructed
NoLogger == [channelName |-> <<>>]

Idle == call = NoCall /\ chan = NoChannel /\ logger = NoLogger

Render(flags) ==
    /\ pc < MaxRenders
    /\ LET r == AddToContainer(elem, cont0, flags, settings)
       IN  /\ elem' = r.el
           /\ container' = r.c
           /\ probe' = [before |-> elem, after |-> r.el, steps |-> r.steps,
                        gate |-> r.gate]
           /\ prev' = [c |-> container, flags |-> lastFlags, probe |-> probe]
           /\ copy' = Alias(copy, r.el, shared)
    /\ lastFlags' = flags
    /\ pc' = pc + 1
    /\ UNCHANGED <<cont0, settings, shared, muts, ret>>
    /\ UNCHANGED others

AddFlags(flags) ==
    /\ ~(flags \subseteq elem.flags)
    /\ elem' = addFlags(elem, flags)
    /\ UNCHANGED <<cont0, container, lastFlags, settings, probe, prev, pc,
                   copy, shared, muts, ret>>
    /\ UNCHANGED others

\* the user changes the timestamp format setting
SetTimestampFormat(format) ==
    /\ settings.timestampFormat # format
    /\ settings' = [settings EXCEPT !.timestampFormat = format]
    /\ UNCHANGED <<elem, cont0, container, lastFlags, probe, prev, pc,
                   copy, shared, muts, ret>>
    /\ UNCHANGED others

SetTrailingSpace(value) ==
    /\ elem.trailingSpace # value
    /\ elem' = setTrailingSpace(elem, value)
    /\ UNCHANGED <<cont0, container, lastFlags, settings, probe, prev, pc,
                   copy, shared, muts, ret>>
    /\ UNCHANGED others

\* c = e.clone()
Clone ==
    /\ copy = NullElement
    /\ LET r == clone(elem, settings)
       IN  copy' = r.el /\ shared' = r.shares
    /\ UNCHANGED <<elem, cont0, container, lastFlags, settings, probe, prev, pc,
                   muts, ret>>
    /\ UNCHANGED others

Object(target) == IF target = "elem" THEN elem ELSE copy

\* a setter call on the original or on the clone left the object as new
Assign(target, new) ==
    /\ Object(target) # NullElement
    /\ muts < MaxMutations
    /\ new # Object(target)
    /\ elem' = IF target = "elem" THEN new ELSE Alias(elem, new, shared)
    /\ copy' = IF target = "copy" THEN new
               ELSE IF copy = NullElement THEN copy ELSE Alias(copy, new, shared)
    /\ muts' = muts + 1
    /\ UNCHANGED <<cont0, container, lastFlags, settings, probe, prev, pc,
                   shared, ret>>
    /\ UNCHANGED others

SetLink(target, link) == Assign(target, setLink(Object(target), link))

SetText(target, text) == Assign(target, setText(Object(target), text))

SetTooltip(target, tooltip) == Assign(target, setTooltip(Object(target), tooltip))

SetThumbnail(target, thumbnail) ==
    Assign(target, setThumbnail(Object(target), thumbnail))

SetThumbnailType(target, type) ==
    Assign(target, setThumbnailType(Object(target), type))

AddFlagsTo(target, flags) == Assign(target, addFlags(Object(target), flags))

AddEmoteLayer(target, emote) ==
    /\ Object(target).kind = "LayeredEmote"
    /\ Len(Object(target).emotes) < MaxLayers
    /\ Assign(target, addEmoteLayer(Object(target), emote))

\* auto unique = e.getUniqueEmotes()
GetUniqueEmotes ==
    /\ elem.kind = "LayeredEmote"
    /\ ret' = [emotes |-> elem.emotes, unique |-> getUniqueEmotes(elem)]
    /\ ret' # ret
    /\ UNCHANGED <<elem, cont0, container, lastFlags, settings, probe, prev, pc,
                   copy, shared, muts>>
    /\ UNCHANGED others

\* c->addToContainer(container, flags)
RenderCopy(flags) ==
    /\ copy # NullElement
    /\ pc < MaxRenders
    /\ LET r == AddToContainer(copy, cont0, flags, settings)
       IN  /\ copy' = r.el
           /\ elem' = Alias(elem, r.el, shared)
           /\ container' = r.c
    /\ pc' = pc + 1
    /\ UNCHANGED <<cont0, lastFlags, settings, probe, prev, shared, muts, ret>>
    /\ UNCHANGED others

----------------------------------------------------------------------------
(* Text elements rendered into every container state *)

TextRenderFlags == {{"Text", "EmoteImages"}, {"Timestamp"}}

InitText ==
    /\ \E text \in Strings(TextChars, MaxTextLen) : elem = TextElement(text, {"Text"})
    /\ cont0 \in {c \in ReachableContainers : c.scale = 1}
    /\ container = cont0
    /\ lastFlags = {}
    /\ settings = NoSettings
    /\ probe = NoProbe
    /\ prev = NoRender
    /\ pc = 0
    /\ NoClone
    /\ NoMessages
    /\ Idle

NextText ==
    \/ \E flags \in TextRenderFlags : Render(flags)
    \/ \E value \in BOOLEAN : SetTrailingSpace(value)

SpecText == InitText /\ [][NextText]_vars

----------------------------------------------------------------------------
(* What a rendered Text element left in the container *)

GatePassed == pc >= 1 /\ hasAny(lastFlags, probe.before.flags)

\* the text fragments emitted for word number wi, in emission order
FragmentsOf(log, wi) == SelectSeq(log, LAMBDA e : e.op = "text" /\ e.word = wi)

\* the positions in the log of the text fragments of word number wi
PositionsOf(log, wi) == {k \in 1..Len(log) : log[k].op = "text" /\ log[k].word = wi}

RECURSIVE ConcatTexts(_)
ConcatTexts(frags) ==
    IF Len(frags) = 0 THEN <<>> ELSE frags[1].text \o ConcatTexts(Tail(frags))

\* the widest unit of the character walk: a surrogate pair or one code unit
RECURSIVE WidestChar(_, _)
WidestChar(text, scale) ==
    IF Len(text) = 0 THEN 0
    ELSE LET n == IF isHighSurrogate(text[1]) /\ Len(text) > 1 THEN 2 ELSE 1
             w == horizontalAdvance(SubSeq(text, 1, n), scale)
             rest == WidestChar(SubSeq(text, n + 1, Len(text)), scale)
         IN  IF w > rest THEN w ELSE rest

EveryCharFitsALine ==
    \A wi \in 1..Len(probe.before.words) :
        WidestChar(probe.before.words[wi].text, cont0.scale) <= cont0.width

WordIsSplit(wi) == Len(FragmentsOf(container.log, wi)) >= 2

\* C3: when the line is at least as wide as every single character, every
\* text fragment a Text element emits is no wider (as emitted and as measured)
\* than the space left on the container's line at the moment it is emitted.
C3_GreedyWrapFits ==
    (elem.kind = "Text" /\ GatePassed /\ EveryCharFitsALine) =>
        \A k \in 1..Len(container.log) :
            container.log[k].op = "text" =>
                /\ container.log[k].width <= container.log[k].rem
                /\ horizontalAdvance(container.log[k].text, cont0.scale)
                       <= container.log[k].rem
                /\ container.log[k].width <= cont0.width

C3_Witness ==
    /\ elem.kind = "Text" /\ GatePassed /\ EveryCharFitsALine
    /\ Len(probe.before.words) >= 2
    /\ \E wi \in 1..Len(probe.before.words) : WordIsSplit(wi)
    /\ \E k \in 1..Len(container.log) :
           container.log[k].op = "text" /\ container.log[k].width = container.log[k].rem

\* C4: no word is dropped: the fragments come in word order and, for every
\* word, the texts of its fragments concatenated are the word's text.
C4_NoWordDropped ==
    (elem.kind = "Text" /\ GatePassed) =>
        /\ \A wi \in 1..Len(probe.before.words) :
               ConcatTexts(FragmentsOf(container.log, wi)) = probe.before.words[wi].text
        /\ \A j, k \in 1..Len(container.log) :
               (j < k /\ container.log[j].op = "text" /\ container.log[k].op = "text")
                   => container.log[j].word <= container.log[k].word
        /\ \A k \in 1..Len(container.log) :
               container.log[k].op = "text" => container.log[k].word \in 1..Len(probe.before.words)

C4_Witness ==
    /\ elem.kind = "Text" /\ GatePassed
    /\ Len(probe.before.words) >= 2
    /\ \E wi \in 1..Len(probe.before.words) : Len(FragmentsOf(container.log, wi)) >= 2
    /\ \E wi \in 1..Len(probe.before.words) :
           Len(FragmentsOf(container.log, wi)) = 1 /\ Len(probe.before.words[wi].text) > 0

\* C5: a word wider than a full empty line is emitted as at least two
\* fragments; each fragment but the last has no trailing space and is directly
\* followed by a line break, and the last carries the element's trailing space.
C5_WideWordIsSplit ==
    (elem.kind = "Text" /\ GatePassed) =>
        \A wi \in 1..Len(probe.before.words) :
            horizontalAdvance(probe.before.words[wi].text, cont0.scale) > cont0.width =>
                LET ps == PositionsOf(container.log, wi)
                    last == CHOOSE k \in ps : \A j \in ps : j <= k
                IN  /\ Cardinality(ps) >= 2
                    /\ \A k \in ps \ {last} :
                           /\ container.log[k].trailing = FALSE
                           /\ container.log[k + 1].op = "break"
                    /\ container.log[last].trailing = probe.before.trailingSpace
                    /\ \A k \in ps : k < last => \E j \in ps : j = k + 2

C5_Witness ==
    /\ elem.kind = "Text" /\ GatePassed /\ probe.before.trailingSpace
    /\ \E wi \in 1..Len(probe.before.words) :
           /\ horizontalAdvance(probe.before.words[wi].text, cont0.scale) > cont0.width
           /\ Len(FragmentsOf(container.log, wi)) >= 3
           /\ \A k \in PositionsOf(container.log, wi) : Len(container.log[k].text) > 0

\* C6: a word that fits an empty line is emitted whole as one fragment, with
\* no line break before it when it fits the rest of the current line and
\* after exactly one line break when it does not.
C6_FittingWordIsWhole ==
    (elem.kind = "Text" /\ GatePassed) =>
        \A wi \in 1..Len(probe.before.words) :
            horizontalAdvance(probe.before.words[wi].text, cont0.scale) <= cont0.width =>
                LET ps == PositionsOf(container.log, wi)
                    k == CHOOSE k \in ps : TRUE
                    brokeBefore == k > 1 /\ container.log[k - 1].op = "break"
                IN  /\ Cardinality(ps) = 1
                    /\ container.log[k].text = probe.before.words[wi].text
                    /\ container.log[k].width =
                           horizontalAdvance(probe.before.words[wi].text, cont0.scale)
                    /\ brokeBefore =>
                           /\ container.log[k].width > container.log[k - 1].rem
                           /\ k > 2 => container.log[k - 2].op # "break"
                    /\ ~brokeBefore => container.log[k].width <= container.log[k].rem

C6_Witness ==
    /\ elem.kind = "Text" /\ GatePassed
    /\ Len(probe.before.words) = 2
    /\ Len(container.log) = 3
    /\ container.log[1].op = "text" /\ container.log[1].rem < cont0.width
    /\ container.log[2].op = "break" /\ container.log[3].op = "text"
    /\ Len(container.log[1].text) > 0 /\ Len(container.log[3].text) > 1

\* C7: a second run of a Text element's addToContainer from the same container
\* state, with the same flags and the element as the first run left it,
\* leaves the container exactly as the first run did.
C7_RerunIsIdentical ==
    (elem.kind = "Text" /\ pc >= 2 /\ prev.flags = lastFlags
        /\ probe.before = prev.probe.after) => container = prev.c

C7_Witness ==
    /\ elem.kind = "Text" /\ pc >= 2 /\ GatePassed /\ prev.flags = lastFlags
    /\ probe.before = prev.probe.after
    /\ \E wi \in 1..Len(probe.before.words) : WordIsSplit(wi)
    /\ prev.probe.before.words # prev.probe.after.words

----------------------------------------------------------------------------
(* Single-line text elements with inline emoji *)

SingleChars == {"a", " ", "E", "F"}

NoImage == [name |-> "none", empty |-> TRUE, width |-> 0, height |-> 0]

SmallImage == [name |-> "small", empty |-> FALSE, width |-> 1, height |-> 1]

LargeImage == [name |-> "large", empty |-> FALSE, width |-> 3, height |-> 2]

SingleRenderFlags == {{"Text", "EmoteImages"}}

InitSingle ==
    /\ \E text \in Strings(SingleChars, MaxSingleLen) :
           elem = SingleLineTextElement(text, {"Text"})
    /\ cont0 \in {c \in ReachableContainers : c.scale = 1}
    /\ container = cont0
    /\ lastFlags = {}
    /\ \E e \in {NoImage, SmallImage, LargeImage} :
           settings = [NoSettings EXCEPT !.images = [E |-> e, F |-> SmallImage]]
    /\ probe = NoProbe
    /\ prev = NoRender
    /\ pc = 0
    /\ NoClone
    /\ NoMessages
    /\ Idle

NextSingle ==
    \/ \E flags \in SingleRenderFlags : Render(flags)

SpecSingle == InitSingle /\ [][NextSingle]_vars

SingleRendered == elem.kind = "SingleLineText" /\ GatePassed

Breaks(log) == {k \in 1..Len(log) : log[k].op = "break"}

\* C8: a SingleLineText element that passes the flag gate breaks the line
\* exactly once, as the last thing it does to the container.
C8_OneTrailingBreak ==
    SingleRendered =>
        /\ Len(container.log) >= 1
        /\ Breaks(container.log) = {Len(container.log)}

C8_Witness ==
    /\ SingleRendered
    /\ Len(container.log) >= 4
    /\ \E k \in 1..Len(container.log) :
           container.log[k].op = "text" /\ container.log[k].width > container.log[k].rem

\* the steps taken after the first elision or emote that did not fit
StepsAfterStop == {k \in 1..Len(probe.steps) : probe.steps[k].afterStop}

\* C9: once the pending text was elided or an emote did not fit,
\* no further token is processed: nothing more is appended to the pending text
\* and no further emote is emitted.
C9_StopsAfterElision ==
    SingleRendered => StepsAfterStop = {}

C10_Events == {k \in 1..Len(probe.steps) : probe.steps[k].token.type = "EmotePtr"}

\* C10: an emote token whose image is loaded and fits with the pending text
\* emits the pending text as one fragment without trailing space directly
\* before the image and leaves the pending text empty; an emote token whose
\* image is empty emits nothing and leaves the pending text as it was.
C10_EmoteFlushesPending ==
    SingleRendered =>
        \A k \in C10_Events :
            LET e == probe.steps[k]
                log == container.log
            IN  /\ e.outcome = "emote" =>
                       /\ e.logAfter = e.logBefore + 2
                       /\ log[e.logBefore + 1].op = "text"
                       /\ log[e.logBefore + 1].text = e.pendingBefore
                       /\ log[e.logBefore + 1].trailing = FALSE
                       /\ log[e.logBefore + 2].op = "image"
                       /\ e.pendingAfter = <<>>
                /\ e.outcome = "noimage" =>
                       /\ e.logAfter = e.logBefore
                       /\ e.pendingAfter = e.pendingBefore
                /\ e.outcome \in {"emote", "noimage", "nofit"}
                /\ e.outcome = "noimage" <=> settings.images[e.token.text[1]].empty
                /\ e.outcome = "emote" <=>
                       /\ ~settings.images[e.token.text[1]].empty
                       /\ cont0.width - log[e.logBefore + 1].rem
                            + horizontalAdvance(e.pendingBefore, cont0.scale)
                            + settings.images[e.token.text[1]].width
                                  * settings.emoteScale * cont0.scale <= cont0.width

C10_Witness ==
    /\ SingleRendered
    /\ \E k \in C10_Events :
           probe.steps[k].outcome = "emote" /\ Len(probe.steps[k].pendingBefore) > 0
    /\ \E k \in C10_Events : probe.steps[k].outcome = "noimage"

----------------------------------------------------------------------------
(* Timestamp elements while the format setting changes *)

TimestampFormats == {<<"h", ":", "m">>, <<"h", "m", "s">>, <<>>}

Times == {[h |-> "1", m |-> "2", s |-> "3"], [h |-> "4", m |-> "4", s |-> "5"]}

TimestampRenderFlags == {{"Timestamp"}, {"Text"}}

InitTimestamp ==
    /\ \E format \in TimestampFormats :
           settings = [NoSettings EXCEPT !.timestampFormat = format]
    /\ \E time \in Times : elem = TimestampElement(time, settings)
    /\ cont0 \in {c \in ReachableContainers : c.scale = 1}
    /\ container = cont0
    /\ lastFlags = {}
    /\ probe = NoProbe
    /\ prev = NoRender
    /\ pc = 0
    /\ NoClone
    /\ NoMessages
    /\ Idle

NextTimestamp ==
    \/ \E flags \in TimestampRenderFlags : Render(flags)
    \/ \E format \in TimestampFormats : SetTimestampFormat(format)
    \/ AddFlags({"Text"})

SpecTimestamp == InitTimestamp /\ [][NextTimestamp]_vars

\* the latest two addToContainer calls both passed the element's flag gate
TwoTimestampRenders ==
    /\ elem.kind = "Timestamp" /\ pc >= 2
    /\ Len(prev.probe.steps) = 1 /\ Len(probe.steps) = 1

WordTexts(words) == [wi \in 1..Len(words) |-> words[wi].text]

\* the text the latest addToContainer emitted, its words joined by spaces
RECURSIVE EmittedText(_, _, _)
EmittedText(log, wi, n) ==
    IF wi > n THEN <<>>
    ELSE (IF wi > 1 THEN <<" ">> ELSE <<>>) \o ConcatTexts(FragmentsOf(log, wi))
             \o EmittedText(log, wi + 1, n)

\* C11: when the timestamp format setting differs between two renders
\* of a Timestamp element, the second render formats the time anew, records
\* the new setting as the cached format and, when the sub-element renders,
\* emits the time in the new format.
C11_FormatChangeReformats ==
    (TwoTimestampRenders /\ prev.probe.steps[1].setting # probe.steps[1].setting) =>
        /\ probe.steps[1].reformatted
        /\ probe.after.format = probe.steps[1].setting
        /\ WordTexts(probe.after.element.words)
               = split(toString(elem.time, probe.steps[1].setting))
        /\ probe.gate =>
               EmittedText(container.log, 1, Len(probe.after.element.words))
                   = toString(elem.time, probe.steps[1].setting)

C11_Witness ==
    /\ TwoTimestampRenders /\ prev.probe.gate /\ probe.gate
    /\ prev.probe.steps[1].setting = <<"h", ":", "m">>
    /\ probe.steps[1].setting = <<"h", "m", "s">>
    /\ EmittedText(prev.c.log, 1, 1) = <<elem.time.h, ":", elem.time.m>>
    /\ EmittedText(container.log, 1, 1) = <<elem.time.h, elem.time.m, elem.time.s>>

\* C12: when the timestamp format setting is the same at two renders
\* of a Timestamp element, the second render does not format the time and
\* keeps the cached sub-element.
C12_SameFormatReusesElement ==
    (TwoTimestampRenders /\ prev.probe.steps[1].setting = probe.steps[1].setting) =>
        /\ ~probe.steps[1].reformatted
        /\ probe.after.format = probe.before.format
        /\ WordTexts(probe.after.element.words) = WordTexts(probe.before.element.words)
        /\ \A wi \in 1..Len(probe.before.element.words) :
               probe.before.element.words[wi].width # -1
                   => probe.after.element.words[wi].width # -1

C12_Witness ==
    /\ TwoTimestampRenders /\ prev.probe.gate /\ probe.gate
    /\ prev.probe.steps[1].setting = probe.steps[1].setting
    /\ prev.probe.steps[1].reformatted
    /\ ~probe.steps[1].reformatted
    /\ container = prev.c /\ Len(container.log) >= 1

----------------------------------------------------------------------------
(* clone() and the setters, on every element variant *)

Targets == {"elem", "copy"}

CloneRenderFlags == {{"Text", "EmoteText", "Timestamp", "ModeratorTools"}}

CloneSettings ==
    [NoSettings EXCEPT
        !.images = [E |-> LargeImage, F |-> SmallImage],
        !.moderationActions =
            <<[action |-> "ban", image |-> SmallImage, line1 |-> "", line2 |-> ""]>>]

CloneElements(st) ==
    {EmptyElement,
     ImageElement(SmallImage, {"Text"}),
     CircularImageElement(SmallImage, {"Text"}),
     EmoteElement("E", {"EmoteImages", "EmoteText"}),
     LayeredEmoteElement(<<[ptr |-> "E", flags |-> {"EmoteImages"}]>>,
                         {"EmoteImages", "EmoteText"}),
     TextElement(<<"a", " ", "H", "L">>, {"Text"}),
     SingleLineTextElement(<<"a", " ", "E">>, {"Text"}),
     TimestampElement([h |-> "1", m |-> "2", s |-> "3"], st),
     TwitchModerationElement,
     LinebreakElement({"Text"}),
     ScalingImageElement("E", {"Text"}),
     ReplyCurveElement}
    \cup {BadgeElement(kind, "E", {"Text"}) : kind \in BadgeKinds}

InitClone ==
    /\ settings = CloneSettings
    /\ elem \in CloneElements(settings)
    /\ cont0 \in {c \in ReachableContainers :
                      c.width = MaxLineWidth /\ c.currentX = 2 /\ c.scale = 1}
    /\ container = cont0
    /\ lastFlags = {}
    /\ probe = NoProbe
    /\ prev = NoRender
    /\ pc = 0
    /\ NoClone
    /\ NoMessages
    /\ Idle

NextClone ==
    \/ Clone
    \/ \E target \in Targets : SetLink(target, "Url")
    \/ \E target \in Targets : SetText(target, <<"x">>)
    \/ \E target \in Targets : SetTooltip(target, <<"y">>)
    \/ \E target \in Targets : SetThumbnail(target, "Thumb")
    \/ \E target \in Targets : SetThumbnailType(target, "Link")
    \/ \E target \in Targets : AddFlagsTo(target, {"Misc"})
    \/ \E target \in Targets : AddEmoteLayer(target, [ptr |-> "F", flags |-> {"EmoteImages"}])
    \/ \E flags \in CloneRenderFlags : Render(flags)
    \/ \E flags \in CloneRenderFlags : RenderCopy(flags)

SpecClone == InitClone /\ [][NextClone]_vars

BaseFields == {"flags", "text", "link", "tooltip", "thumbnail", "thumbnailType"}

\* C14: clone() returns an element of the same variant whose flags,
\* text, link, tooltip, thumbnail and thumbnail type are the original's at
\* the time of the call.
C14_CloneCopiesFields ==
    [][(copy = NullElement /\ copy' # NullElement) =>
           /\ copy'.kind = elem.kind
           /\ DOMAIN copy' = DOMAIN elem
           /\ \A f \in BaseFields : copy'[f] = elem[f]]_vars

C14_Witness ==
    /\ copy # NullElement /\ muts = 2 /\ pc = 0
    /\ elem.kind \in {"LayeredEmote", "Emote", "ModBadge", "Timestamp"}
    /\ elem.tooltip = <<"y">> /\ "Misc" \in elem.flags
    /\ copy.tooltip = <<"y">> /\ copy.flags = elem.flags

----------------------------------------------------------------------------
(* Layered emotes *)

TallImage == [name |-> "tall", empty |-> FALSE, width |-> 1, height |-> 3]

\* the layers an element is built from: an emote can be layered twice
LayerChoices ==
    {[ptr |-> "E", flags |-> {"EmoteImages"}], [ptr |-> "E", flags |-> {"ZeroWidthEmote"}],
     [ptr |-> "F", flags |-> {"EmoteImages"}]}

Layers(n) == UNION {[1..k -> LayerChoices] : k \in 0..n}

LayeredRenderFlags == {{"EmoteImages", "Text"}}

LayeredSettings ==
    {[NoSettings EXCEPT !.images = [E |-> e, F |-> f],
                        !.emoteScale = emoteScale] :
        e \in {NoImage, LargeImage}, f \in {NoImage, TallImage}, emoteScale \in Scales}

InitLayered ==
    /\ settings \in LayeredSettings
    /\ \E emotes \in Layers(MaxLayers - 1) :
           elem = LayeredEmoteElement(emotes, {"EmoteImages", "EmoteText"})
    /\ cont0 \in {c \in ReachableContainers :
                      c.width = MaxLineWidth /\ c.currentX = 0 /\ c.atStart
                          /\ c.scale = 1}
    /\ container = cont0
    /\ lastFlags = {}
    /\ probe = NoProbe
    /\ prev = NoRender
    /\ pc = 0
    /\ NoClone
    /\ NoMessages
    /\ Idle

NextLayered ==
    \/ \E flags \in LayeredRenderFlags : Render(flags)
    \/ \E emote \in LayerChoices : AddEmoteLayer("elem", emote)

SpecLayered == InitLayered /\ [][NextLayered]_vars

\* the layers queried for their unique emotes while layers are added
InitUnique ==
    /\ InitLayered
    /\ settings.emoteScale = 1

NextUnique ==
    \/ GetUniqueEmotes
    \/ \E emote \in LayerChoices : AddEmoteLayer("elem", emote)

SpecUnique == InitUnique /\ [][NextUnique]_vars

\* the positions of emotes at which the emote is layered for the first time
FirstOccurrences(emotes) ==
    {i \in 1..Len(emotes) : \A j \in 1..(i - 1) : emotes[j].ptr # emotes[i].ptr}

\* C15: getUniqueEmotes returns the layers at which an emote occurs for the
\* first time, in layer order: every distinct emote exactly once.
C15_UniqueEmotesFirstOccurrence ==
    ret # <<>> =>
        /\ Len(ret.unique) = Cardinality({ret.emotes[i].ptr : i \in 1..Len(ret.emotes)})
        /\ \A i, j \in 1..Len(ret.unique) : i # j => ret.unique[i].ptr # ret.unique[j].ptr
        /\ \E pos \in [1..Len(ret.unique) -> 1..Len(ret.emotes)] :
               /\ \A i \in 1..Len(ret.unique) :
                      pos[i] \in FirstOccurrences(ret.emotes)
                          /\ ret.unique[i] = ret.emotes[pos[i]]
               /\ \A i, j \in 1..Len(ret.unique) : i < j => pos[i] < pos[j]
        /\ elem.kind = "LayeredEmote"
        /\ SubSeq(elem.emotes, 1, Len(ret.emotes)) = ret.emotes

C15_Witness ==
    /\ ret # <<>>
    /\ Len(ret.emotes) = 3 /\ Len(ret.unique) = 2
    /\ ret.emotes[1].ptr = ret.emotes[3].ptr
    /\ ret.emotes[1] # ret.emotes[3]
    /\ ret.unique = <<ret.emotes[1], ret.emotes[2]>>

LayeredRendered ==
    /\ elem.kind = "LayeredEmote" /\ pc >= 1 /\ has(lastFlags, "EmoteImages")

\* the images of the layers that resolve to a loaded image, in layer order
ResolvedImages(el) ==
    LET images == [i \in 1..Len(el.emotes) |-> settings.images[el.emotes[i].ptr]]
    IN  SelectSeq(images, LAMBDA image : ~image.empty)

\* C16: the bounding box of an emitted layered image is at least as wide and
\* as high as the scaled size of every resolved layer, and there is one size
\* per resolved layer, in layer order.
C16_BoundingBoxCoversLayers ==
    LayeredRendered =>
        \A k \in 1..Len(container.log) :
            container.log[k].op = "layered" =>
                LET e == container.log[k]
                    images == ResolvedImages(probe.before)
                    overallScale == settings.emoteScale * cont0.scale
                IN  /\ Len(e.sizes) = Len(images)
                    /\ \A i \in 1..Len(images) :
                           /\ e.sizes[i].width = images[i].width * overallScale
                           /\ e.sizes[i].height = images[i].height * overallScale
                           /\ e.width >= e.sizes[i].width
                           /\ e.height >= e.sizes[i].height

C16_Witness ==
    /\ LayeredRendered /\ settings.emoteScale = 2
    /\ \E k \in 1..Len(container.log) :
           /\ container.log[k].op = "layered"
           /\ Len(container.log[k].sizes) = 2
           /\ container.log[k].width > container.log[k].sizes[2].width
           /\ container.log[k].height > container.log[k].sizes[1].height

\* C17: rendered with emote images, a LayeredEmote element emits one layered
\* image made of the loaded images of its layers in layer order, and emits
\* nothing when no layer has a loaded image.
C17_EmptyLayersAreSkipped ==
    LayeredRendered =>
        LET images == ResolvedImages(probe.before)
            layered == SelectSeq(container.log, LAMBDA e : e.op = "layered")
        IN  /\ Len(images) = 0 => container = cont0
            /\ Len(images) > 0 =>
                   /\ Len(layered) = 1
                   /\ layered[1].text = [i \in 1..Len(images) |-> images[i].name]

C17_Witness ==
    /\ LayeredRendered
    /\ Len(probe.before.emotes) = 3
    /\ settings.images[probe.before.emotes[2].ptr].empty
    /\ \E k \in 1..Len(container.log) :
           container.log[k].op = "layered" /\ Len(container.log[k].text) = 2

\* the tooltips of the layers joined by spaces
RECURSIVE JoinedTooltips(_, _)
JoinedTooltips(emotes, i) ==
    IF i > Len(emotes) THEN <<>>
    ELSE (IF i # 1 THEN <<" ">> ELSE <<>>) \o emoteTooltip(emotes[i].ptr)
             \o JoinedTooltips(emotes, i + 1)

\* C18: the tooltip of a LayeredEmote element is the tooltips of its
\* layers joined by spaces, and the list of layer tooltips has the tooltip of
\* every layer, in layer order.
C18_TooltipIsJoinedTooltips ==
    elem.kind = "LayeredEmote" =>
        /\ elem.tooltip = JoinedTooltips(elem.emotes, 1)
        /\ elem.emoteTooltips
               = [i \in 1..Len(elem.emotes) |-> emoteTooltip(elem.emotes[i].ptr)]

----------------------------------------------------------------------------
(* Every element variant against every flag filter *)

AddableFlags == {"Text", "Timestamp", "ModeratorTools"}

GateRenderFlags ==
    {{}, {"Text"}, {"Timestamp"}, {"ModeratorTools"}, {"RepliedMessage"},
     {"EmoteImages", "Text"}, {"EmoteText", "Text"}}

GateSettings ==
    {[NoSettings EXCEPT
         !.images = [E |-> e, F |-> SmallImage],
         !.moderationActions =
             <<[action |-> "ban", image |-> SmallImage, line1 |-> "", line2 |-> ""],
               [action |-> "t1", image |-> NoImage, line1 |-> "1", line2 |-> "s"]>>] :
        e \in {NoImage, LargeImage}}

GateElements(st) ==
    {EmptyElement,
     ImageElement(SmallImage, {"Text"}),
     ImageElement(NoImage, {"Text"}),
     CircularImageElement(SmallImage, {"Text"}),
     CircularImageElement(NoImage, {"Text"}),
     EmoteElement("E", {"EmoteImages", "EmoteText"}),
     LayeredEmoteElement(<<[ptr |-> "E", flags |-> {"EmoteImages"}],
                           [ptr |-> "F", flags |-> {"EmoteImages"}]>>,
                         {"EmoteImages", "EmoteText"}),
     TextElement(<<"a", "a", " ", "H", "L">>, {"Text"}),
     SingleLineTextElement(<<"a", " ", "E", "a">>, {"Text"}),
     TimestampElement([h |-> "1", m |-> "2", s |-> "3"], st),
     TwitchModerationElement,
     LinebreakElement({"Text"}),
     ScalingImageElement("E", {"Text"}),
     ReplyCurveElement}
    \cup {BadgeElement(kind, "E", {"Text"}) : kind \in BadgeKinds}

GateContainers ==
    {c \in ReachableContainers :
        /\ c.width = MaxLineWidth
        /\ \/ c.currentX = 0 /\ c.atStart
           \/ c.currentX = 2 /\ c.scale = 1}

InitGate ==
    /\ settings \in GateSettings
    /\ elem \in GateElements(settings)
    /\ cont0 \in GateContainers
    /\ container = cont0
    /\ lastFlags = {}
    /\ probe = NoProbe
    /\ prev = NoRender
    /\ pc = 0
    /\ NoClone
    /\ NoMessages
    /\ Idle

NextGate ==
    \/ \E flags \in GateRenderFlags : Render(flags)
    \/ \E flag \in AddableFlags : AddFlags({flag})

SpecGate == InitGate /\ [][NextGate]_vars

\* C1: render flags that share no bit with the element's flags make
\* addToContainer a no-op: the container is left exactly as it was.
C1_NoSharedFlagNoOp ==
    (pc >= 1 /\ ~hasAny(lastFlags, probe.before.flags)) => container = cont0

C1_Witness ==
    /\ pc >= 1 /\ ~hasAny(lastFlags, probe.before.flags)
    /\ elem.kind = "TwitchModeration"
    /\ probe.before.flags = {"ModeratorTools", "Text"}
    /\ lastFlags = {"Timestamp"}
    /\ container = cont0

\* C2: whether addToContainer passes its gate depends only on
\* whether the render flags intersect the element's flags: two renders of an
\* element that agree on the intersection agree on passing the gate.
C2_FlagsAreSoleGate ==
    pc >= 2 =>
        ((hasAny(prev.flags, prev.probe.before.flags)
              = hasAny(lastFlags, probe.before.flags))
            => prev.probe.gate = probe.gate)

\* the image layout elements a render emitted
ImageOps == {"image", "circle", "imageWithBackground", "layered"}

ImageBearingKinds ==
    {"Image", "CircularImage", "ScalingImage", "Emote", "LayeredEmote",
     "SingleLineText"} \cup BadgeKinds

\* C19: an element that holds or resolves an image emits no image primitive
\* for an image that is empty at render time.
C19_EmptyImageIsSkipped ==
    (pc >= 1 /\ elem.kind \in ImageBearingKinds) =>
        \A k \in 1..Len(container.log) :
            container.log[k].op \in ImageOps =>
                \A i \in 1..Len(container.log[k].text) :
                    container.log[k].text[i] # NoImage.name

----------------------------------------------------------------------------
(* The moderation buttons for every list of configured actions *)

ModerationActionChoices ==
    {[action |-> "ban", image |-> SmallImage, line1 |-> "", line2 |-> ""],
     [action |-> "t1", image |-> NoImage, line1 |-> "1", line2 |-> "s"],
     [action |-> "t2", image |-> NoImage, line1 |-> "2", line2 |-> "m"]}

ModerationRenderFlags == {{"ModeratorTools"}, {"ModeratorTools", "Text"}, {"Text"}}

InitModeration ==
    /\ \E actions \in UNION {[1..n -> ModerationActionChoices] : n \in 0..MaxActions} :
           settings = [NoSettings EXCEPT !.moderationActions = actions]
    /\ elem = TwitchModerationElement
    /\ cont0 \in ReachableContainers
    /\ container = cont0
    /\ lastFlags = {}
    /\ probe = NoProbe
    /\ prev = NoRender
    /\ pc = 0
    /\ NoClone
    /\ NoMessages
    /\ Idle

NextModeration ==
    \/ \E flags \in ModerationRenderFlags : Render(flags)

SpecModeration == InitModeration /\ [][NextModeration]_vars

ModerationRendered ==
    elem.kind = "TwitchModeration" /\ pc >= 1 /\ has(lastFlags, "ModeratorTools")

\* the buttons the latest render emitted
Buttons == SelectSeq(container.log, LAMBDA e : e.op \in {"image", "texticon"})

\* C20: rendered with moderator tools, a TwitchModeration element emits one
\* button per configured action, in the order of the list, repeats included:
\* the action's image if it has one, else its two-line text icon, linked to
\* the action's invocation string as a user action.
C20_OneButtonPerAction ==
    ModerationRendered =>
        LET actions == settings.moderationActions
        IN  /\ Len(Buttons) = Len(actions)
            /\ \A k \in 1..Len(container.log) :
                   container.log[k].op \in {"image", "texticon", "break"}
            /\ \A i \in 1..Len(actions) :
                   /\ Buttons[i].link = <<"UserAction", actions[i].action>>
                   /\ ~actions[i].image.empty =>
                          /\ Buttons[i].op = "image"
                          /\ Buttons[i].text = <<actions[i].image.name>>
                   /\ actions[i].image.empty =>
                          /\ Buttons[i].op = "texticon"
                          /\ Buttons[i].text = <<actions[i].line1, actions[i].line2>>
                   /\ Buttons[i].width = 16 * cont0.scale
                   /\ Buttons[i].height = 16 * cont0.scale

C20_Witness ==
    /\ ModerationRendered
    /\ Len(settings.moderationActions) = 2
    /\ settings.moderationActions[1] = settings.moderationActions[2]
    /\ Len(Buttons) = 2 /\ Buttons[1].op = "texticon" /\ Buttons[2].op = "texticon"
    /\ Buttons[1].link = Buttons[2].link

\* an element built from nothing: the empty string, no words, no layers
ZeroLength(el) ==
    \/ el.kind = "Text" /\ (Len(el.words) = 0 \/ WordTexts(el.words) = split(<<>>))
    \/ el.kind = "LayeredEmote" /\ Len(el.emotes) = 0

\* C22: an element built from zero-length input (a Text element of the
\* empty string or of no words, a LayeredEmote element without layers) emits
\* nothing: a render leaves the container as it was.
C22_ZeroLengthIsNoOp ==
    (pc >= 1 /\ ZeroLength(probe.before)) => container = cont0

----------------------------------------------------------------------------
(* Emote elements with image rendering on and off *)

EmoteRenderFlags ==
    {{"EmoteImages"}, {"EmoteText"}, {"EmoteImages", "EmoteText"}, {"Text"}}

InitEmote ==
    /\ \E e \in {NoImage, SmallImage, LargeImage}, emoteScale \in Scales :
           settings = [NoSettings EXCEPT !.images = [E |-> e, F |-> SmallImage],
                                         !.emoteScale = emoteScale]
    /\ elem = EmoteElement("E", {"EmoteImages", "EmoteText"})
    /\ cont0 \in ReachableContainers
    /\ container = cont0
    /\ lastFlags = {}
    /\ probe = NoProbe
    /\ prev = NoRender
    /\ pc = 0
    /\ NoClone
    /\ NoMessages
    /\ Idle

NextEmote ==
    \/ \E flags \in EmoteRenderFlags : Render(flags)
    \/ SetLink("elem", "Url")

SpecEmote == InitEmote /\ [][NextEmote]_vars

\* C21: an Emote element that passes the flag gate renders its copy string
\* as text, and no image, exactly when the render flags lack EmoteImages; with
\* EmoteImages it renders no text, and one image of the image's size times the
\* scale times the emote scale, with the element's link, if the image is loaded.
C21_EmoteImageOrText ==
    (elem.kind = "Emote" /\ GatePassed) =>
        LET image == settings.images[probe.before.emote]
            texts == SelectSeq(container.log, LAMBDA e : e.op = "text")
            images == SelectSeq(container.log, LAMBDA e : e.op \in ImageOps)
            rest == SelectSeq(container.log,
                              LAMBDA e : e.op \notin ImageOps \cup {"text", "break"})
        IN  /\ Len(rest) = 0
            /\ ~has(lastFlags, "EmoteImages") =>
                   /\ Len(images) = 0
                   /\ Len(texts) >= 1
                   /\ EmittedText(container.log, 1, 1) = getCopyString(probe.before.emote)
                   /\ container.log
                          = TextElementAddToContainer(
                                TextElement(getCopyString(probe.before.emote), {"Misc"}),
                                cont0, {"Misc"}).c.log
            /\ has(lastFlags, "EmoteImages") =>
                   /\ Len(texts) = 0
                   /\ image.empty => container = cont0
                   /\ ~image.empty =>
                          /\ Len(images) = 1
                          /\ images[1].op = "image"
                          /\ images[1].text = <<image.name>>
                          /\ images[1].width
                                 = image.width * cont0.scale * settings.emoteScale
                          /\ images[1].height
                                 = image.height * cont0.scale * settings.emoteScale
                          /\ images[1].link = probe.before.link

C21_Witness ==
    /\ elem.kind = "Emote" /\ GatePassed /\ pc = 2
    /\ has(lastFlags, "EmoteImages") /\ ~has(prev.flags, "EmoteImages")
    /\ \E k \in 1..Len(prev.c.log) : prev.c.log[k].op = "text"
    /\ \E k \in 1..Len(container.log) :
           container.log[k].op = "image" /\ container.log[k].link = "Url"
    /\ settings.emoteScale = 2 /\ cont0.scale = 2

----------------------------------------------------------------------------
(* Surrogate pairs in the character walk *)

\* C24: the character walk takes a high surrogate and the code unit after it
\* as one unit: no fragment of a split word ends with a high surrogate or
\* starts with a low one, and the width of every fragment counts each pair
\* once, as the pair's own width.
C24_SurrogatePairIsOneUnit ==
    (elem.kind = "Text" /\ GatePassed) =>
        \A k \in 1..Len(container.log) :
            container.log[k].op = "text" =>
                LET text == container.log[k].text
                IN  /\ Len(text) > 0 =>
                           /\ ~isHighSurrogate(text[Len(text)])
                           /\ text[1] # "L"
                    /\ container.log[k].width = horizontalAdvance(text, cont0.scale)

C24_Witness ==
    /\ elem.kind = "Text" /\ GatePassed
    /\ \E wi \in 1..Len(probe.before.words) :
           LET frags == FragmentsOf(container.log, wi)
           IN  /\ Len(frags) >= 2
               /\ \E k \in 1..(Len(frags) - 1) :
                      /\ Len(frags[k].text) >= 2 /\ Len(frags[k + 1].text) >= 2
                      /\ frags[k].text[Len(frags[k].text)] = "L"
                      /\ frags[k + 1].text[1] = "H"

----------------------------------------------------------------------------
(* The single line of a SingleLineText element *)

\* C25: every text fragment a SingleLineText element emits, the pending text
\* emitted after an ellipsis was appended included, is no wider than the
\* space left on the container's line at the moment it is emitted.
C25_SingleLineFragmentsFit ==
    SingleRendered =>
        \A k \in 1..Len(container.log) :
            container.log[k].op = "text" =>
                container.log[k].width <= container.log[k].rem

----------------------------------------------------------------------------
(* A Timestamp element rendered while the format setting is being changed *)

\* TimestampElement::addToContainer is entered: the flag test
BeginTimestamp(flags) ==
    /\ call = NoCall
    /\ elem.kind = "Timestamp"
    /\ pc < MaxRenders
    /\ IF hasAny(flags, elem.flags)
       THEN /\ call' = [line |-> "compare", flags |-> flags, before |-> elem,
                        reads |-> <<>>]
            /\ UNCHANGED <<container, probe, prev, lastFlags, pc>>
       ELSE /\ container' = cont0
            /\ probe' = [before |-> elem, after |-> elem, steps |-> <<>>,
                         gate |-> FALSE]
            /\ prev' = [c |-> container, flags |-> lastFlags, probe |-> probe]
            /\ lastFlags' = flags
            /\ pc' = pc + 1
            /\ UNCHANGED call
    /\ UNCHANGED <<elem, cont0, settings, copy, shared, muts, ret, message,
                   published, chan>>
    /\ UNCHANGED logger

\* getSettings()->timestampFormat != this->format_
CompareFormat ==
    /\ call.line = "compare"
    /\ LET read == settings.timestampFormat
       IN  call' = [call EXCEPT !.line = IF read # elem.format THEN "store" ELSE "emit",
                                !.reads = Append(@, read)]
    /\ UNCHANGED <<elem, cont0, container, lastFlags, settings, probe, prev, pc,
                   copy, shared, muts, ret, message, published, chan>>
    /\ UNCHANGED logger

\* this->format_ = getSettings()->timestampFormat.getValue()
StoreFormat ==
    /\ call.line = "store"
    /\ LET read == settings.timestampFormat
       IN  /\ elem' = [elem EXCEPT !.format = read]
           /\ call' = [call EXCEPT !.line = "format", !.reads = Append(@, read)]
    /\ UNCHANGED <<cont0, container, lastFlags, settings, probe, prev, pc,
                   copy, shared, muts, ret, message, published, chan>>
    /\ UNCHANGED logger

\* this->element_.reset(this->formatTime(this->time_))
FormatTime ==
    /\ call.line = "format"
    /\ elem' = [elem EXCEPT !.element = formatTime(elem.time, settings)]
    /\ call' = [call EXCEPT !.line = "emit",
                             !.reads = Append(@, settings.timestampFormat)]
    /\ UNCHANGED <<cont0, container, lastFlags, settings, probe, prev, pc,
                   copy, shared, muts, ret, message, published, chan>>
    /\ UNCHANGED logger

\* this->element_->addToContainer(container, flags)
EmitTimestamp ==
    /\ call.line = "emit"
    /\ LET r == TextElementAddToContainer(elem.element, cont0, call.flags)
           after == [elem EXCEPT !.element = r.el]
       IN  /\ elem' = after
           /\ container' = r.c
           /\ probe' = [before |-> call.before, after |-> after,
                        steps |-> <<[setting |-> settings.timestampFormat,
                                     cached |-> call.before.format,
                                     reformatted |-> Len(call.reads) = 3,
                                     reads |-> call.reads]>>,
                        gate |-> r.gate]
    /\ prev' = [c |-> container, flags |-> lastFlags, probe |-> probe]
    /\ lastFlags' = call.flags
    /\ pc' = pc + 1
    /\ call' = NoCall
    /\ UNCHANGED <<cont0, settings, copy, shared, muts, ret, message, published,
                   chan>>
    /\ UNCHANGED logger

RaceFormats == {<<"h", ":", "m">>, <<"h", "m", "s">>}

InitTimestampRace ==
    /\ \E format \in RaceFormats :
           settings = [NoSettings EXCEPT !.timestampFormat = format]
    /\ \E time \in Times : elem = TimestampElement(time, settings)
    /\ cont0 \in {c \in ReachableContainers : c.scale = 1 /\ c.width = MaxLineWidth}
    /\ container = cont0
    /\ lastFlags = {}
    /\ probe = NoProbe
    /\ prev = NoRender
    /\ pc = 0
    /\ NoClone
    /\ NoMessages
    /\ Idle

NextTimestampRace ==
    \/ \E flags \in TimestampRenderFlags : BeginTimestamp(flags)
    \/ CompareFormat
    \/ StoreFormat
    \/ FormatTime
    \/ EmitTimestamp
    \/ \E format \in RaceFormats : SetTimestampFormat(format)

SpecTimestampRace == InitTimestampRace /\ [][NextTimestampRace]_vars

\* the latest render passed the flag tests and found the same setting at
\* every read and when it emitted
QuietRender ==
    /\ elem.kind = "Timestamp" /\ pc >= 1 /\ probe.gate
    /\ \A i \in 1..Len(probe.steps[1].reads) :
           probe.steps[1].reads[i] = probe.steps[1].setting

\* C26: however updates of the format setting interleaved with the reads of
\* earlier renders, a render during which the setting no longer changes emits
\* the time formatted with that setting.
C26_CacheSurvivesConcurrentUpdates ==
    QuietRender =>
        EmittedText(container.log, 1, Len(probe.after.element.words))
            = toString(elem.time, probe.steps[1].setting)

----------------------------------------------------------------------------
(* The cache key of a Timestamp element and of its clone *)

InitTimestampKey ==
    /\ \E format \in TimestampFormats :
           settings = [NoSettings EXCEPT !.timestampFormat = format]
    /\ \E time \in Times : elem = TimestampElement(time, settings)
    /\ cont0 \in {c \in ReachableContainers : c.scale = 1 /\ c.width = MaxLineWidth}
    /\ container = cont0
    /\ lastFlags = {}
    /\ probe = NoProbe
    /\ prev = NoRender
    /\ pc = 0
    /\ NoClone
    /\ NoMessages
    /\ Idle

NextTimestampKey ==
    \/ \E flags \in {{"Timestamp"}} : Render(flags)
    \/ \E format \in TimestampFormats : SetTimestampFormat(format)
    \/ Clone

SpecTimestampKey == InitTimestampKey /\ [][NextTimestampKey]_vars

\* the cached sub-element holds the time formatted with the recorded format
CacheKeyHolds(el) ==
    WordTexts(el.element.words) = split(toString(el.time, el.format))

\* C27: in every state of a Timestamp element and of its clone the cached
\* sub-element's text is the time formatted with the format recorded as the
\* cache key, and every render, the first one after construction included,
\* emits the time formatted with the setting active at that render.
C27_CacheKeyInvariant ==
    /\ elem.kind = "Timestamp" => CacheKeyHolds(elem)
    /\ copy # NullElement => CacheKeyHolds(copy)
    /\ (pc >= 1 /\ probe.gate) =>
           EmittedText(container.log, 1, Len(probe.after.element.words))
               = toString(elem.time, probe.steps[1].setting)


TextCloneFlags == {{"Text"}}

InitTextClone ==
    /\ \E text \in Strings({"a", " "}, MaxTextLen) : elem = TextElement(text, {"Text"})
    /\ cont0 \in {c \in ReachableContainers : c.scale = 1 /\ c.width = MaxLineWidth}
    /\ container = cont0
    /\ lastFlags = {}
    /\ settings = NoSettings
    /\ probe = NoProbe
    /\ prev = NoRender
    /\ pc = 0
    /\ NoClone
    /\ NoMessages
    /\ Idle

NextTextClone ==
    \/ \E value \in BOOLEAN : SetTrailingSpace(value)
    \/ SetLink("elem", "Url")
    \/ Clone
    \/ \E flags \in TextCloneFlags : RenderCopy(flags)
    \/ \E flags \in TextCloneFlags : Render(flags)

SpecTextClone == InitTextClone /\ [][NextTextClone]_vars

\* the clone was rendered first and the original after it, and the clone is
\* what clone() makes of the original
CloneThenOriginalRendered ==
    /\ elem.kind = "Text" /\ copy # NullElement
    /\ pc = 2 /\ prev.probe = NoProbe /\ prev.c # cont0
    /\ probe # NoProbe /\ GatePassed /\ elem = probe.after
    /\ copy = cloneElement(elem, settings)

\* C28: a clone of a Text element, whatever setters were called on the
\* element, rendered from the same container state with the same flags and
\* settings emits the fragments the element emits: same texts, widths, links
\* and trailing spaces, in the same places.
C28_CloneRendersLikeOriginal ==
    CloneThenOriginalRendered => prev.c.log = container.log

----------------------------------------------------------------------------
(* Message::cloneWith *)

MaxElements == 2

\* struct Message: the flags, some of the metadata, the owned elements
Message(elements) ==
    [kind |-> "Message", flags |-> {}, messageText |-> <<"a">>, count |-> 1,
     replyThread |-> "None", elements |-> elements]

\* the callbacks handed to cloneWith
Mutators == {"nothing", "setFlags", "setText", "linkElements", "clearElements"}

\* fn(message)
applyFn(fn, m) ==
    CASE fn = "nothing" -> m
      [] fn = "setFlags" -> [m EXCEPT !.flags = @ \cup {"Disabled"}]
      [] fn = "setText" -> [m EXCEPT !.messageText = <<>>]
      [] fn = "linkElements" ->
            [m EXCEPT !.elements = [i \in 1..Len(@) |-> setLink(@[i], "Url")]]
      [] fn = "clearElements" -> [m EXCEPT !.elements = <<>>]

\* Message::cloneWith: the fields are copied, every element is cloned, fn is
\* called on the copy, then the copy is handed out; `original` is the message
\* it was called on as the call leaves it
cloneWith(m, fn, st) ==
    LET clones == [i \in 1..Len(m.elements) |-> clone(m.elements[i], st)]
        cloned == [m EXCEPT !.elements = [i \in 1..Len(clones) |-> clones[i].el]]
        result == applyFn(fn, cloned)
    IN  [result |-> result,
         calls |-> <<[fn |-> fn, on |-> "copy", published |-> FALSE]>>,
         original |->
             [m EXCEPT !.elements =
                 [i \in 1..Len(m.elements) |->
                     IF i <= Len(result.elements)
                     THEN Alias(m.elements[i], result.elements[i], clones[i].shares)
                     ELSE m.elements[i]]]]

\* auto copy = message->cloneWith(fn)
CloneWith(fn) ==
    /\ message # NoMessage
    /\ LET r == cloneWith(message, fn, settings)
       IN  /\ message' = r.original
           /\ published' = [message |-> r.result, calls |-> r.calls, from |-> message]
    /\ published' # published
    /\ UNCHANGED <<elem, cont0, container, lastFlags, settings, probe, prev, pc,
                   copy, shared, muts, ret, call, chan>>
    /\ UNCHANGED logger

\* the flags of a message are mutable: message->flags.set(flag)
SetMessageFlag(flag) ==
    /\ message # NoMessage
    /\ flag \notin message.flags
    /\ message' = [message EXCEPT !.flags = @ \cup {flag}]
    /\ UNCHANGED <<elem, cont0, container, lastFlags, settings, probe, prev, pc,
                   copy, shared, muts, ret, published, call, chan>>
    /\ UNCHANGED logger

MessageElements ==
    {TextElement(<<"a", " ", "a">>, {"Text"}),
     setTrailingSpace(TextElement(<<"a">>, {"Text"}), FALSE),
     EmoteElement("E", {"EmoteImages", "EmoteText"}),
     LinebreakElement({"Text"})}

InitMessage ==
    /\ \E elements \in UNION {[1..n -> MessageElements] : n \in 0..MaxElements} :
           message = Message(elements)
    /\ published = NoPublished
    /\ elem = EmptyElement
    /\ cont0 \in {c \in ReachableContainers :
                      c.width = MaxLineWidth /\ c.currentX = 0 /\ c.atStart
                          /\ c.scale = 1}
    /\ container = cont0
    /\ lastFlags = {}
    /\ settings = NoSettings
    /\ probe = NoProbe
    /\ prev = NoRender
    /\ pc = 0
    /\ NoClone
    /\ Idle

NextMessage ==
    \/ \E fn \in Mutators : CloneWith(fn)
    \/ \E flag \in {"Highlighted", "Disabled"} : SetMessageFlag(flag)

SpecMessage == InitMessage /\ [][NextMessage]_vars

\* C23: cloneWith calls fn once, on the copy and before the copy is handed
\* out; the call leaves the message it is called on as it was; and with an fn
\* that changes nothing the copy is identical to the original.
C23_CloneWithIsIndependent ==
    published # NoPublished =>
        /\ Len(published.calls) = 1
        /\ published.calls[1].on = "copy" /\ ~published.calls[1].published
        /\ [message EXCEPT !.flags = published.from.flags] = published.from
        /\ published.calls[1].fn = "nothing" => published.message = published.from

----------------------------------------------------------------------------
(* The /ban, /banid and /timeout commands *)

MaxCommands == 1

makeSystemMessage(text) == [kind |-> "system", text |-> text]

HelixBanUserError ==
    {"ConflictingOperation", "Forwarded", "Ratelimited", "TargetBanned",
     "CannotBanUser", "UserMissingScope", "UserNotAuthorized", "Unknown"}

\* the switch of formatBanTimeoutError: what is appended for an error
errorText(operation, error, msg, userTarget) ==
    CASE error = "ConflictingOperation" ->
            <<"There was a conflicting ban operation on this user. Please try again.">>
      [] error = "Forwarded" -> msg
      [] error = "Ratelimited" ->
            <<"You are being ratelimited by Twitch. Try again in a few seconds.">>
      [] error = "TargetBanned" ->
            userTarget \o <<" is already banned in this channel.">>
      [] error = "CannotBanUser" ->
            <<"You cannot ", operation, " ">> \o userTarget \o <<".">>
      [] error = "UserMissingScope" ->
            <<"Missing required scope. Re-login with your account and try again.">>
      [] error = "UserNotAuthorized" ->
            <<"You don't have permission to perform that action.">>
      [] error = "Unknown" -> <<"An unknown error has occurred.">>

\* formatBanTimeoutError naming the ban whatever the operation is
formatBanTimeoutErrorOfBan(operation, error, msg, userTarget) ==
    <<"Failed to ", "ban", " user - ">>
        \o errorText(operation, error, msg, userTarget)

formatBanTimeoutError(operation, error, msg, userTarget) ==
    <<"Failed to ", operation, " user - ">>
        \o errorText(operation, error, msg, userTarget)

\* stripChannelName: a leading @ or # is removed
stripChannelName(target) ==
    IF Len(target) > 0 /\ target[1] \in {"@", "#"} THEN Tail(target) ELSE target

\* QStringList::join(' ')
RECURSIVE join(_)
join(words) ==
    IF Len(words) = 0 THEN <<>>
    ELSE IF Len(words) = 1 THEN words[1]
    ELSE words[1] \o <<" ">> \o join(Tail(words))

\* the duration words a command is given and parseDurationToSeconds of each;
\* the values are within the range of int, where the cast keeps them
DurationWords == {<<"1", "0", "m">>, <<"0">>, <<"x">>}

parseDurationToSeconds(word) ==
    CASE word = <<"1", "0", "m">> -> 600
      [] word = <<"0">> -> 0
      [] OTHER -> -1

banUsage == <<"Usage: \"/ban <username> [reason]\"">>

banidUsage == <<"Usage: \"/banid <userID> [reason]\"">>

timeoutUsage == <<"Usage: \"/timeout <username> [duration][time unit] [reason]\"">>

\* what a command did before it returned
Returned(messages, requests) ==
    [ret |-> <<>>, messages |-> messages, requests |-> requests]

\* sendBan requesting the ban of the name it was given, without the lookup
sendBanWithoutLookup(ctx) ==
    IF ctx.channel = "null" THEN Returned(<<>>, <<>>)
    ELSE IF ctx.channel # "twitch"
    THEN Returned(<<makeSystemMessage(
                      <<"The /ban command only works in Twitch channels">>)>>, <<>>)
    ELSE IF Len(ctx.words) < 2
    THEN Returned(<<makeSystemMessage(banUsage)>>, <<>>)
    ELSE IF ctx.anon
    THEN Returned(<<makeSystemMessage(<<"You must be logged in to ban someone!">>)>>,
                  <<>>)
    ELSE Returned(<<>>,
             <<[call |-> "banUser", command |-> "sendBan",
                operation |-> "ban", target |-> stripChannelName(ctx.words[2]),
                userID |-> stripChannelName(ctx.words[2]),
                userTarget |-> stripChannelName(ctx.words[2]),
                duration |-> "nullopt",
                reason |-> join(mid(ctx.words, 2, Len(ctx.words)))]>>)

sendBan(ctx) ==
    IF ctx.channel = "null" THEN Returned(<<>>, <<>>)
    ELSE IF ctx.channel # "twitch"
    THEN Returned(<<makeSystemMessage(
                      <<"The /ban command only works in Twitch channels">>)>>, <<>>)
    ELSE IF Len(ctx.words) < 2
    THEN Returned(<<makeSystemMessage(banUsage)>>, <<>>)
    ELSE IF ctx.anon
    THEN Returned(<<makeSystemMessage(<<"You must be logged in to ban someone!">>)>>,
                  <<>>)
    ELSE Returned(<<>>,
             <<[call |-> "getUserByName", command |-> "sendBan",
                operation |-> "ban", target |-> stripChannelName(ctx.words[2]),
                duration |-> "nullopt",
                reason |-> join(mid(ctx.words, 2, Len(ctx.words)))]>>)

sendBanById(ctx) ==
    IF ctx.channel = "null" THEN Returned(<<>>, <<>>)
    ELSE IF ctx.channel # "twitch"
    THEN Returned(<<makeSystemMessage(
                      <<"The /banid command only works in Twitch channels">>)>>, <<>>)
    ELSE IF Len(ctx.words) < 2
    THEN Returned(<<makeSystemMessage(banidUsage)>>, <<>>)
    ELSE IF ctx.anon
    THEN Returned(<<makeSystemMessage(<<"You must be logged in to ban someone!">>)>>,
                  <<>>)
    ELSE Returned(<<>>,
             <<[call |-> "banUser", command |-> "sendBanById",
                operation |-> "ban", target |-> ctx.words[2],
                userID |-> ctx.words[2], userTarget |-> <<"#">> \o ctx.words[2],
                duration |-> "nullopt",
                reason |-> join(mid(ctx.words, 2, Len(ctx.words)))]>>)

\* sendTimeout taking every duration
sendTimeoutAnyDuration(ctx) ==
    IF ctx.channel = "null" THEN Returned(<<>>, <<>>)
    ELSE IF ctx.channel # "twitch"
    THEN Returned(<<makeSystemMessage(
                      <<"The /timeout command only works in Twitch channels">>)>>, <<>>)
    ELSE IF Len(ctx.words) < 2
    THEN Returned(<<makeSystemMessage(timeoutUsage)>>, <<>>)
    ELSE IF ctx.anon
    THEN Returned(<<makeSystemMessage(
                      <<"You must be logged in to timeout someone!">>)>>, <<>>)
    ELSE LET duration == IF Len(ctx.words) >= 3
                         THEN parseDurationToSeconds(ctx.words[3]) ELSE 10 * 60
         IN  Returned(<<>>,
                      <<[call |-> "getUserByName", command |-> "sendTimeout",
                         operation |-> "timeout",
                         target |-> stripChannelName(ctx.words[2]),
                         duration |-> duration,
                         reason |-> join(mid(ctx.words, 3, Len(ctx.words)))]>>)

sendTimeout(ctx) ==
    IF ctx.channel = "null" THEN Returned(<<>>, <<>>)
    ELSE IF ctx.channel # "twitch"
    THEN Returned(<<makeSystemMessage(
                      <<"The /timeout command only works in Twitch channels">>)>>, <<>>)
    ELSE IF Len(ctx.words) < 2
    THEN Returned(<<makeSystemMessage(timeoutUsage)>>, <<>>)
    ELSE IF ctx.anon
    THEN Returned(<<makeSystemMessage(
                      <<"You must be logged in to timeout someone!">>)>>, <<>>)
    ELSE LET duration == IF Len(ctx.words) >= 3
                         THEN parseDurationToSeconds(ctx.words[3]) ELSE 10 * 60
         IN  IF Len(ctx.words) >= 3 /\ duration <= 0
             THEN Returned(<<makeSystemMessage(timeoutUsage)>>, <<>>)
             ELSE Returned(<<>>,
                      <<[call |-> "getUserByName", command |-> "sendTimeout",
                         operation |-> "timeout",
                         target |-> stripChannelName(ctx.words[2]),
                         duration |-> duration,
                         reason |-> join(mid(ctx.words, 3, Len(ctx.words)))]>>)

Commands == {"sendBan", "sendBanById", "sendTimeout"}

\* the command controller runs a command with a context
Run(command, ctx) ==
    /\ Len(chan.runs) < MaxCommands
    /\ LET r == CASE command = "sendBan" -> sendBan(ctx)
                  [] command = "sendBanById" -> sendBanById(ctx)
                  [] command = "sendTimeout" -> sendTimeout(ctx)
           \* each request remembers the invocation whose callbacks it holds
           requests == [j \in 1..Len(r.requests) |->
                           r.requests[j] @@ [run |-> Len(chan.runs) + 1]]
       IN  chan' = [chan EXCEPT
                       !.messages = @ \o r.messages,
                       !.requests = @ \o requests,
                       !.runs = Append(@, [command |-> command, ctx |-> ctx,
                                           ret |-> r.ret, added |-> r.messages,
                                           issued |-> requests])]
    /\ UNCHANGED <<elem, cont0, container, lastFlags, settings, probe, prev, pc,
                   copy, shared, muts, ret, message, published, call>>
    /\ UNCHANGED logger

\* the sequence without its element number i
Without(seq, i) == SubSeq(seq, 1, i - 1) \o SubSeq(seq, i + 1, Len(seq))

\* Helix answers request number i; the callback it calls adds the messages
\* and issues the requests
Respond(i, outcome, error, result, messages, requests) ==
    chan' = [chan EXCEPT
                !.messages = @ \o messages,
                !.requests = Without(@, i) \o requests,
                !.responses = Append(@, [request |-> chan.requests[i],
                                         outcome |-> outcome, error |-> error,
                                         result |-> result,
                                         added |-> messages, issued |-> requests])]

\* the user ids Helix knows
UserIds == {<<"7">>, <<"8">>}

\* getUserByName calls its success callback: the ban is requested
GetUserByNameSucceeds(i, id) ==
    /\ i \in 1..Len(chan.requests)
    /\ chan.requests[i].call = "getUserByName"
    /\ LET request == chan.requests[i]
           targetUser == [id |-> id, displayName |-> <<"U">> \o Tail(request.target)]
       IN  Respond(i, "success", "None", targetUser, <<>>,
               <<[call |-> "banUser", command |-> request.command,
                  operation |-> request.operation, target |-> request.target,
                  userID |-> targetUser.id, userTarget |-> targetUser.displayName,
                  duration |-> request.duration, reason |-> request.reason,
                  run |-> request.run]>>)
    /\ UNCHANGED <<elem, cont0, container, lastFlags, settings, probe, prev, pc,
                   copy, shared, muts, ret, message, published, call>>
    /\ UNCHANGED logger

\* getUserByName calls its failure callback
GetUserByNameFails(i) ==
    /\ i \in 1..Len(chan.requests)
    /\ chan.requests[i].call = "getUserByName"
    /\ Respond(i, "failure", "None", "None",
               <<makeSystemMessage(<<"Invalid username: ">> \o chan.requests[i].target)>>,
               <<>>)
    /\ UNCHANGED <<elem, cont0, container, lastFlags, settings, probe, prev, pc,
                   copy, shared, muts, ret, message, published, call>>
    /\ UNCHANGED logger

\* banUser calls its success callback, which does nothing
BanUserSucceeds(i) ==
    /\ i \in 1..Len(chan.requests)
    /\ chan.requests[i].call = "banUser"
    /\ Respond(i, "success", "None", "None", <<>>, <<>>)
    /\ UNCHANGED <<elem, cont0, container, lastFlags, settings, probe, prev, pc,
                   copy, shared, muts, ret, message, published, call>>
    /\ UNCHANGED logger

\* banUser calls its failure callback with an error and the server's message
BanUserFails(i, error, msg) ==
    /\ i \in 1..Len(chan.requests)
    /\ chan.requests[i].call = "banUser"
    /\ LET request == chan.requests[i]
       IN  Respond(i, "failure", error, "None",
               <<makeSystemMessage(formatBanTimeoutError(
                     request.operation, error, msg, request.userTarget))>>,
               <<>>)
    /\ UNCHANGED <<elem, cont0, container, lastFlags, settings, probe, prev, pc,
                   copy, shared, muts, ret, message, published, call>>
    /\ UNCHANGED logger

CommandTargets == {<<"#", "u">>}

WordLists ==
    {<<>>}
        \cup {<<target>> : target \in CommandTargets}
        \cup {<<target, word>> : target \in CommandTargets, word \in DurationWords}
        \cup {<<target, word, <<"r">>>> : target \in CommandTargets,
                                         word \in DurationWords}

Contexts(command) ==
    [channel : {"null", "irc", "twitch"},
     words : {<<<<"/", command>>>> \o words : words \in WordLists},
     anon : BOOLEAN]

ServerMessage == <<"The user is a VIP.">>

ServerMessages == {ServerMessage}

InitCommands ==
    /\ elem = EmptyElement
    /\ cont0 \in {c \in ReachableContainers :
                      c.width = MaxLineWidth /\ c.currentX = 0 /\ c.atStart
                          /\ c.scale = 1}
    /\ container = cont0
    /\ lastFlags = {}
    /\ settings = NoSettings
    /\ probe = NoProbe
    /\ prev = NoRender
    /\ pc = 0
    /\ NoClone
    /\ NoMessages
    /\ Idle

NextCommands ==
    \/ \E command \in Commands : \E ctx \in Contexts(command) : Run(command, ctx)
    \/ \E i \in 1..MaxCommands : \E id \in UserIds : GetUserByNameSucceeds(i, id)
    \/ \E i \in 1..MaxCommands : GetUserByNameFails(i)
    \/ \E i \in 1..MaxCommands : BanUserSucceeds(i)
    \/ \E i \in 1..MaxCommands : \E error \in HelixBanUserError :
           \E msg \in ServerMessages : BanUserFails(i, error, msg)

SpecCommands == InitCommands /\ [][NextCommands]_vars

\* the answers Helix gave to the ban requests
BanResponses == {k \in 1..Len(chan.responses) : chan.responses[k].request.call = "banUser"}

OperationOf(command) == IF command = "sendTimeout" THEN "timeout" ELSE "ban"

\* C29: every failed ban or timeout request adds exactly one system message
\* to the channel, which starts with "Failed to ban user - " for sendBan and
\* sendBanById and with "Failed to timeout user - " for sendTimeout and goes on
\* with the text of the error; a successful request adds no message.
C29_FailureIsOneSystemMessage ==
    \A k \in BanResponses :
        LET r == chan.responses[k]
            operation == OperationOf(r.request.command)
        IN  /\ r.outcome = "success" => r.added = <<>>
            /\ r.outcome = "failure" =>
                   /\ Len(r.added) = 1
                   /\ r.added[1].kind = "system"
                   /\ Len(r.added[1].text) > 3
                   /\ SubSeq(r.added[1].text, 1, 3) = <<"Failed to ", operation, " user - ">>
                   /\ SubSeq(r.added[1].text, 4, Len(r.added[1].text))
                          = errorText(operation, r.error, ServerMessage, r.request.userTarget)
                   /\ r.error = "Forwarded" =>
                          SubSeq(r.added[1].text, 4, Len(r.added[1].text)) = ServerMessage
                   /\ chan.messages # <<>>

C29_Witness ==
    \E k \in BanResponses :
        /\ chan.responses[k].outcome = "failure"
        /\ chan.responses[k].request.command = "sendTimeout"
        /\ chan.responses[k].error = "CannotBanUser"
        /\ chan.messages = chan.responses[k].added

\* the first guard, in the order channel, Twitch channel, words, account,
\* duration, that a command's context does not pass
FirstFailing(command, ctx) ==
    IF ctx.channel = "null" THEN "channel"
    ELSE IF ctx.channel # "twitch" THEN "twitch"
    ELSE IF Len(ctx.words) < 2 THEN "words"
    ELSE IF ctx.anon THEN "account"
    ELSE IF /\ command = "sendTimeout" /\ Len(ctx.words) >= 3
            /\ parseDurationToSeconds(ctx.words[3]) <= 0 THEN "duration"
    ELSE "none"

\* the system message that tells of a guard
GuardMessage(command, guard) ==
    CASE guard = "twitch" ->
            (CASE command = "sendBan" ->
                     <<"The /ban command only works in Twitch channels">>
               [] command = "sendBanById" ->
                     <<"The /banid command only works in Twitch channels">>
               [] command = "sendTimeout" ->
                     <<"The /timeout command only works in Twitch channels">>)
      [] guard \in {"words", "duration"} ->
            (CASE command = "sendBan" -> banUsage
               [] command = "sendBanById" -> banidUsage
               [] command = "sendTimeout" -> timeoutUsage)
      [] guard = "account" ->
            IF command = "sendTimeout"
            THEN <<"You must be logged in to timeout someone!">>
            ELSE <<"You must be logged in to ban someone!">>

\* C30: a command issues a request only when the channel is not null and is
\* a Twitch channel, two words or more were given, the account is not
\* anonymous and, for sendTimeout with a duration word, the duration is
\* positive; the first guard that fails, in that order, adds exactly one system
\* message (none when the channel is null) and no request is issued; every
\* command returns the empty string.
C30_GuardsBeforeRequest ==
    \A k \in 1..Len(chan.runs) :
        LET r == chan.runs[k]
            guard == FirstFailing(r.command, r.ctx)
        IN  /\ r.ret = <<>>
            /\ r.issued # <<>> => guard = "none"
            /\ guard = "channel" => (r.added = <<>> /\ r.issued = <<>>)
            /\ guard \notin {"channel", "none"} =>
                   /\ r.issued = <<>>
                   /\ r.added = <<makeSystemMessage(GuardMessage(r.command, guard))>>

C30_Witness ==
    \E k \in 1..Len(chan.runs) :
        /\ chan.runs[k].command = "sendTimeout"
        /\ FirstFailing(chan.runs[k].command, chan.runs[k].ctx) = "duration"
        /\ Len(chan.runs[k].ctx.words) = 4
        /\ chan.messages = <<makeSystemMessage(timeoutUsage)>>
        /\ chan.requests = <<>>

\* the answers Helix gave to the user lookups
Lookups == {k \in 1..Len(chan.responses) :
               chan.responses[k].request.call = "getUserByName"}

\* the ban requests of sendBan and sendTimeout, answered and with the answer
\* number, or pending (number 0 + Len(responses) + 1)
LookupBans ==
    {[request |-> chan.responses[k].request, at |-> k] : k \in BanResponses}
        \cup {[request |-> chan.requests[i], at |-> Len(chan.responses) + 1] :
                  i \in {j \in 1..Len(chan.requests) : chan.requests[j].call = "banUser"}}

\* the messages added to the channel on behalf of invocation number n
RECURSIVE AddedByResponses(_, _)
AddedByResponses(n, k) ==
    IF k = 0 THEN 0
    ELSE AddedByResponses(n, k - 1)
             + (IF chan.responses[k].request.run = n
                THEN Len(chan.responses[k].added) ELSE 0)

AddedBy(n) == Len(chan.runs[n].added) + AddedByResponses(n, Len(chan.responses))

\* C31: in sendBan and sendTimeout a ban request is issued only by the
\* success of the invocation's user lookup and carries the looked-up user's
\* id; a failed lookup adds exactly one "Invalid username: <target>" system
\* message and its invocation never issues a ban request; with one callback
\* per request no invocation adds more than one system message in all.
C31_BanFollowsLookup ==
    /\ \A b \in LookupBans :
           b.request.command \in {"sendBan", "sendTimeout"} =>
               \E k \in Lookups :
                   /\ k < b.at
                   /\ chan.responses[k].outcome = "success"
                   /\ chan.responses[k].request.run = b.request.run
                   /\ chan.responses[k].issued = <<b.request>>
                   /\ b.request.userID = chan.responses[k].result.id
    /\ \A k \in Lookups :
           chan.responses[k].outcome = "failure" =>
               /\ chan.responses[k].added
                      = <<makeSystemMessage(<<"Invalid username: ">>
                                               \o chan.responses[k].request.target)>>
               /\ chan.responses[k].issued = <<>>
               /\ \A b \in LookupBans : b.request.run # chan.responses[k].request.run
    /\ \A n \in 1..Len(chan.runs) : AddedBy(n) <= 1

C31_Witness ==
    /\ \E k \in Lookups, j \in BanResponses :
           /\ k < j
           /\ chan.responses[k].outcome = "success"
           /\ chan.responses[k].result.id = <<"8">>
           /\ chan.responses[j].request.command = "sendTimeout"
           /\ chan.responses[j].request.userID = <<"8">>
           /\ chan.responses[j].outcome = "failure"
    /\ \E n \in 1..Len(chan.runs) : AddedBy(n) = 1

----------------------------------------------------------------------------
(* LoggingChannel *)

MaxLogged == 2

MaxDay == 2

Digits == <<"0", "1", "2", "3", "4", "5", "6", "7", "8", "9">>

\* a number of a date or time written with two digits
Pad2(n) == <<Digits[(n \div 10) + 1], Digits[(n % 10) + 1]>>

\* now.toString("HH:mm:ss")
toStringTime(now) == Pad2(now.h) \o <<":">> \o Pad2(now.m) \o <<":">> \o Pad2(now.s)

\* generateDateString: now.toString("yyyy-MM-dd"), the days of one month
generateDateString(now) == <<"2", "0", "2", "4", "-", "0", "1", "-">> \o Pad2(now.day)

endline == <<"\n">>

\* QString::startsWith
startsWith(text, prefix) ==
    Len(text) >= Len(prefix) /\ SubSeq(text, 1, Len(prefix)) = prefix

\* QString::indexOf(ch), positions counted from 0, -1 when there is none
indexOf(text, ch) ==
    IF \E i \in 1..Len(text) : text[i] = ch
    THEN (CHOOSE i \in 1..Len(text) :
              text[i] = ch /\ \A j \in 1..(i - 1) : text[j] # ch) - 1
    ELSE -1

\* QString::insert(position, what)
insert(text, position, what) ==
    SubSeq(text, 1, position) \o what \o SubSeq(text, position + 1, Len(text))

Whispers == <<"/", "w", "h", "i", "s", "p", "e", "r", "s">>

Mentions == <<"/", "m", "e", "n", "t", "i", "o", "n", "s">>

Live == <<"/", "l", "i", "v", "e">>

\* generateOpeningString
generateOpeningString(now) ==
    <<"# Start logging at ">> \o generateDateString(now) \o <<" ">>
        \o toStringTime(now) \o <<" ", "UTC">> \o endline

\* appendLine: the line goes to the file when the file is open and is lost
\* when it is not
appendLine(l, line) ==
    [l EXCEPT !.events =
        Append(@, IF l.open
                  THEN [op |-> "write", file |-> l.fileName,
                        kind |-> IF line[1] = "# Start logging at "
                                 THEN "start" ELSE "message"]
                  ELSE [op |-> "lost", file |-> l.fileName, kind |-> "none"])]

\* what creating the directory and opening the file can come to
IoOutcomes == {"ok", "mkpathFails", "openFails"}

\* openLogFile, when the clock shows `now`
openLogFile(l, now, io) ==
    LET l1 == [l EXCEPT !.dateString = generateDateString(now)]
        l2 == IF l1.open
              THEN [l1 EXCEPT !.open = FALSE,
                              !.events = @ \o <<[op |-> "flush", file |-> l1.fileName,
                                                 kind |-> "none"],
                                                [op |-> "close", file |-> l1.fileName,
                                                 kind |-> "none"]>>]
              ELSE l1
        baseFileName == l2.channelName \o <<"-">> \o l2.dateString \o <<".log">>
        directory == <<l2.baseDirectory, "/">> \o l2.subDirectory
        fileName == directory \o <<"/">> \o baseFileName
        l3 == [l2 EXCEPT !.fileName = fileName,
                         !.open = (io = "ok"),
                         !.events = Append(@, [op |-> IF io = "ok" THEN "open"
                                                      ELSE "openFailed",
                                               file |-> fileName, kind |-> "none"])]
    IN  IF io = "mkpathFails" THEN l2
        ELSE appendLine(l3, generateOpeningString(now))

NoLine == [line |-> <<>>]

\* the constructor; the callback connected to the logPath setting is called
\* at once
LoggingChannel(channelName, platform, now, io) ==
    LET subDirectory ==
            IF startsWith(channelName, Whispers) THEN <<"Whispers">>
            ELSE IF startsWith(channelName, Mentions) THEN <<"Mentions">>
            ELSE IF startsWith(channelName, Live) THEN <<"Live">>
            ELSE <<"Channels", "/">> \o channelName
    IN  openLogFile([channelName |-> channelName,
                     subDirectory |-> <<platform, "/">> \o subDirectory,
                     baseDirectory |-> "Logs",
                     dateString |-> <<>>, open |-> FALSE, fileName |-> <<>>,
                     events |-> <<>>, now |-> now, n |-> 0, crashed |-> FALSE,
                     last |-> NoLine],
                    now, io)

\* the messages and threads the references of a logged message point to
Heap ==
    [parent |-> [loginName |-> <<"p">>],
     thread |-> [root |-> "rootMessage"],
     rootMessage |-> [loginName |-> <<"r">>]]

\* the part of addMessage that makes the text of the message
messageBody(msg) ==
    IF msg.loginName = <<>> THEN msg.messageText
    ELSE IF msg.localizedName = <<>>
         THEN msg.loginName \o <<":", " ">> \o msg.messageText
         ELSE msg.localizedName \o <<" ">> \o msg.loginName \o <<":", " ">>
                  \o msg.messageText

\* the reply-mention path is taken
ReplyMentionPath(msg, stripReplyMention, hideReplyContext) ==
    /\ has(msg.flags, "ReplyMessage") /\ stripReplyMention /\ ~hideReplyContext
    /\ indexOf(messageBody(msg), ":") # -1

\* message->replyThread is dereferenced while it is null
NullDereference(msg, stripReplyMention, hideReplyContext) ==
    /\ ReplyMentionPath(msg, stripReplyMention, hideReplyContext)
    /\ msg.replyParent = "None" /\ msg.replyThread = "None"

\* formatLine without the name of the channel
formatLineNoChannel(l, msg, now, stripReplyMention, hideReplyContext, read) ==
    LET body == messageBody(msg)
        rootMessageChatter ==
            IF msg.replyParent # "None" THEN Heap[msg.replyParent].loginName
            ELSE IF msg.replyThread # "None"
                 THEN Heap[Heap[msg.replyThread].root].loginName
            ELSE read
        messageText ==
            IF ReplyMentionPath(msg, stripReplyMention, hideReplyContext)
            THEN insert(body, indexOf(body, ":") + 1, <<" ", "@">> \o rootMessageChatter)
            ELSE body
    IN  <<"[">> \o toStringTime(now) \o <<"]", " ">> \o messageText \o endline

\* the line addMessage makes of a message; `read` is what a build that gets
\* past a null replyThread reads as the login name
formatLine(l, msg, now, stripReplyMention, hideReplyContext, read) ==
    LET body == messageBody(msg)
        rootMessageChatter ==
            IF msg.replyParent # "None" THEN Heap[msg.replyParent].loginName
            ELSE IF msg.replyThread # "None"
                 THEN Heap[Heap[msg.replyThread].root].loginName
            ELSE read
        messageText ==
            IF ReplyMentionPath(msg, stripReplyMention, hideReplyContext)
            THEN insert(body, indexOf(body, ":") + 1, <<" ", "@">> \o rootMessageChatter)
            ELSE body
    IN  (IF startsWith(l.channelName, Mentions)
         THEN <<"#">> \o msg.channelName \o <<" ">> ELSE <<>>)
            \o <<"[">> \o toStringTime(now) \o <<"]", " ">> \o messageText \o endline

\* what dereferencing a null replyThread comes to: the process ends, or
\* something is read as the login name
NullOutcomes == {"crash", "read"}

\* LoggingChannel::addMessage; `late` says that midnight passes between the
\* reading of the clock in addMessage and the one in openLogFile
AddMessage(msg, stripReplyMention, hideReplyContext, late, io, outcome) ==
    /\ logger # NoLogger
    /\ ~logger.crashed
    /\ logger.n < MaxLogged
    /\ LET now == logger.now
           rotate == generateDateString(now) # logger.dateString
           null == NullDereference(msg, stripReplyMention, hideReplyContext)
           now2 == IF late THEN [day |-> now.day + 1, h |-> 0, m |-> 0, s |-> 0]
                   ELSE now
           l1 == IF rotate
                 THEN openLogFile([logger EXCEPT !.dateString = generateDateString(now),
                                                 !.now = now2],
                                  now2, io)
                 ELSE logger
           line == formatLine(l1, msg, now, stripReplyMention, hideReplyContext,
                              <<"?">>)
           last == [message |-> msg, now |-> now, line |-> line,
                    stripReplyMention |-> stripReplyMention,
                    hideReplyContext |-> hideReplyContext,
                    rotate |-> rotate, from |-> Len(logger.events),
                    null |-> null, written |-> ~(null /\ outcome = "crash")]
       IN  /\ late => (rotate /\ now.day < MaxDay)
           /\ ~rotate => io = "ok"
           /\ ~null => outcome = "read"
           /\ logger' = IF null /\ outcome = "crash"
                        THEN [l1 EXCEPT !.crashed = TRUE, !.n = @ + 1, !.last = last]
                        ELSE [appendLine(l1, line) EXCEPT !.n = @ + 1, !.last = last]
    /\ UNCHANGED <<elem, cont0, container, lastFlags, settings, probe, prev, pc,
                   copy, shared, muts, ret, message, published, call, chan>>

\* the clock goes on
Tick(now) ==
    /\ logger # NoLogger
    /\ ~logger.crashed
    /\ \/ now.day > logger.now.day
       \/ now.day = logger.now.day /\ now.h > logger.now.h
    /\ logger' = [logger EXCEPT !.now = now]
    /\ UNCHANGED <<elem, cont0, container, lastFlags, settings, probe, prev, pc,
                   copy, shared, muts, ret, message, published, call, chan>>

\* the logPath setting changes: the connected callback opens the file anew
LogPathChanged(io) ==
    /\ logger # NoLogger
    /\ ~logger.crashed
    /\ logger.n < MaxLogged
    /\ logger' = [openLogFile(logger, logger.now, io) EXCEPT !.n = @ + 1,
                                                            !.last = NoLine]
    /\ UNCHANGED <<elem, cont0, container, lastFlags, settings, probe, prev, pc,
                   copy, shared, muts, ret, message, published, call, chan>>

\* the messages handed to addMessage: every combination of the fields it reads
LogMessages ==
    [loginName : {<<>>, <<"u">>}, localizedName : {<<>>, <<"L">>},
     messageText : {<<"a">>, <<"a", ":", "b">>}, channelName : {<<"c">>},
     flags : {{}, {"ReplyMessage"}}, replyParent : {"None", "parent"},
     replyThread : {"None", "thread"}]

LogChannelNames == {Mentions \o <<"x">>, <<"c">>}

Clock == [day : 1..MaxDay, h : {10, 23}, m : {5}, s : {9}]

InitLogLine ==
    /\ elem = EmptyElement
    /\ cont0 \in {c \in ReachableContainers :
                      c.width = MaxLineWidth /\ c.currentX = 0 /\ c.atStart
                          /\ c.scale = 1}
    /\ container = cont0
    /\ lastFlags = {}
    /\ settings = NoSettings
    /\ probe = NoProbe
    /\ prev = NoRender
    /\ pc = 0
    /\ NoClone
    /\ NoMessages
    /\ call = NoCall
    /\ chan = NoChannel
    /\ \E channelName \in LogChannelNames, now \in Clock :
           /\ now.day = 1
           /\ logger = LoggingChannel(channelName, "Twitch", now, "ok")

NextLogLine ==
    \/ \E msg \in LogMessages, stripReplyMention \in BOOLEAN,
          hideReplyContext \in BOOLEAN, outcome \in NullOutcomes :
           AddMessage(msg, stripReplyMention, hideReplyContext, FALSE, "ok", outcome)
    \/ \E now \in Clock : now.day = logger.now.day /\ Tick(now)

SpecLogLine == InitLogLine /\ [][NextLogLine]_vars

\* C34: addMessage never dereferences an absent reference: when the
\* reply-mention path is taken and replyParent is absent, replyThread is present
C34_NoAbsentReferenceRead ==
    (logger # NoLogger /\ logger.last # NoLine) => ~logger.last.null

\* the lines the last call of addMessage gave to appendLine for the file
MessageLinesOfLastCall ==
    {i \in (logger.last.from + 1)..Len(logger.events) :
         logger.events[i].kind = "message"}

\* the body as the three cases of the names give it
ClaimedBody(msg) ==
    CASE msg.loginName = <<>> -> msg.messageText
      [] msg.loginName # <<>> /\ msg.localizedName = <<>> ->
             msg.loginName \o <<":", " ">> \o msg.messageText
      [] OTHER -> msg.localizedName \o <<" ">> \o msg.loginName \o <<":", " ">>
                      \o msg.messageText

\* the name of the logging channel starts with "/mentions"
LogsMentions ==
    /\ Len(logger.channelName) >= 9
    /\ \A i \in 1..9 : logger.channelName[i] = Mentions[i]

\* "#<channelName> " for a logging channel of mentions, nothing for another
ClaimedPrefix ==
    IF LogsMentions
    THEN <<"#">> \o logger.last.message.channelName \o <<" ">>
    ELSE <<>>

\* "[HH:mm:ss] " of the time the call read
ClaimedTime ==
    LET now == logger.last.now
    IN  <<"[", Digits[(now.h \div 10) + 1], Digits[(now.h % 10) + 1], ":",
          Digits[(now.m \div 10) + 1], Digits[(now.m % 10) + 1], ":",
          Digits[(now.s \div 10) + 1], Digits[(now.s % 10) + 1], "]", " ">>

\* the body with " @<login>" put after its first colon
WithMention(body, login) ==
    LET first == CHOOSE i \in 1..Len(body) :
                     body[i] = ":" /\ \A j \in 1..(i - 1) : body[j] # ":"
    IN  SubSeq(body, 1, first) \o <<" ", "@">> \o login
            \o SubSeq(body, first + 1, Len(body))

\* the last call took the reply-mention path
LastTookReplyMentionPath ==
    /\ "ReplyMessage" \in logger.last.message.flags
    /\ logger.last.stripReplyMention /\ ~logger.last.hideReplyContext
    /\ \E i \in 1..Len(ClaimedBody(logger.last.message)) :
           ClaimedBody(logger.last.message)[i] = ":"

LastCallReturned ==
    logger # NoLogger /\ logger.last # NoLine /\ logger.last.written

RotationMessages ==
    {msg \in LogMessages :
         /\ msg.flags = {} /\ msg.replyParent = "None" /\ msg.replyThread = "None"
         /\ msg.messageText = <<"a">>
         /\ (msg.localizedName # <<>> => msg.loginName # <<>>)}

InitLogRotation ==
    /\ elem = EmptyElement
    /\ cont0 \in {c \in ReachableContainers :
                      c.width = MaxLineWidth /\ c.currentX = 0 /\ c.atStart
                          /\ c.scale = 1}
    /\ container = cont0
    /\ lastFlags = {}
    /\ settings = NoSettings
    /\ probe = NoProbe
    /\ prev = NoRender
    /\ pc = 0
    /\ NoClone
    /\ NoMessages
    /\ call = NoCall
    /\ chan = NoChannel
    /\ \E channelName \in LogChannelNames, now \in Clock :
           /\ now.day = 1
           /\ logger = LoggingChannel(channelName, "Twitch", now, "ok")

NextLogRotation ==
    \/ \E msg \in RotationMessages, late \in BOOLEAN, io \in IoOutcomes :
           AddMessage(msg, FALSE, FALSE, late, io, "read")
    \/ \E now \in Clock : Tick(now)
    \/ \E io \in IoOutcomes : LogPathChanged(io)

SpecLogRotation == InitLogRotation /\ [][NextLogRotation]_vars

\* the date in the name of a log file: what stands before ".log"
DateInName(file) == SubSeq(file, Len(file) - 10, Len(file) - 1)

\* the places in the history where a file was opened
Opens == {i \in 1..Len(logger.events) : logger.events[i].op = "open"}

MostRecentOpen == CHOOSE i \in Opens : \A j \in Opens : j <= i

\* the file that was open when the last call of addMessage began
OpenBeforeLastCall ==
    \E i \in 1..logger.last.from :
        /\ logger.events[i].op = "open"
        /\ \A j \in (i + 1)..logger.last.from : logger.events[j].op # "close"

\* the last call of addMessage found the date changed: the file of before is
\* flushed and closed, then a file named for the stored date is opened, and
\* only then the line of the message is written, to that file
RotatedInOrder ==
    \E o \in (logger.last.from + 1)..Len(logger.events) :
        /\ logger.events[o].op = "open"
        /\ DateInName(logger.events[o].file) = logger.dateString
        /\ OpenBeforeLastCall =>
               \E f \in (logger.last.from + 1)..(o - 1) :
                   /\ logger.events[f].op = "flush"
                   /\ f + 1 < o /\ logger.events[f + 1].op = "close"
                   /\ logger.events[f + 1].file = logger.events[f].file
        /\ \E w \in (o + 1)..Len(logger.events) :
               /\ logger.events[w].kind = "message"
               /\ logger.events[w].file = logger.events[o].file
        /\ \A w \in (logger.last.from + 1)..o : logger.events[w].kind # "message"

\* every open is followed at once by the line "# Start logging at" written
\* to the opened file
StartLineFirst ==
    \A o \in Opens :
        /\ o < Len(logger.events)
        /\ logger.events[o + 1].kind = "start"
        /\ logger.events[o + 1].file = logger.events[o].file

\* C33: when addMessage finds the date changed, the file of before is flushed
\* and closed and a file named for the new date is opened before the line of
\* the message is written; every successful open writes "# Start logging at"
\* before any line of a message goes to the file; and after addMessage the
\* stored date string is the date in the name of the most recently opened file
C33_RotationOrdering ==
    (logger # NoLogger /\ logger.last # NoLine) =>
        /\ logger.last.rotate => RotatedInOrder
        /\ StartLineFirst
        /\ Opens # {}
        /\ logger.dateString = DateInName(logger.events[MostRecentOpen].file)

====
